---------------------------- MODULE Spec2Model ----------------------------
(***************************************************************************)
(* A model of the diary pipeline of openclaw-subagent-chronicle:           *)
(*   scripts/save.py      extract_summary, extract_title,                  *)
(*                        update_persistent_files, append_to_daily_memory  *)
(*   scripts/generate.py  extract_summary_from_entry,                      *)
(*                        extract_title_from_entry, interactive_mode,      *)
(*                        update_persistent_files, append_to_daily_memory  *)
(*   scripts/collect.py   parse_jsonl_session                              *)
(*                                                                         *)
(* Text.  A Python str is modelled as a sequence of characters, one        *)
(* element per code point.  An ASCII character is the one-character string *)
(* holding it; a code point outside ASCII is the string "U+<hex>".  The    *)
(* source files spell their decorative glyphs as multi-code-point          *)
(* sequences (save.py and generate.py each in its own way, neither being   *)
(* the single code point of the glyph itself); the sequences below are     *)
(* copied code point by code point from the source lines named in          *)
(* MODEL_MAP.json.                                                         *)
(*                                                                         *)
(* The transcript parser works on ASCII text only and uses TLA+ strings    *)
(* directly (Len, SubSeq and \o act on them character by character).       *)
(***************************************************************************)
EXTENDS Naturals, Sequences, FiniteSets, TLC

VARIABLES
    \* --- section extractor (SpecExtract) ---
    doc,            \* the diary document handed to the extractor
    extracted,      \* the last extraction: [op, result], or NoCall
    \* --- record parser (SpecParse) ---
    session,        \* the lines of the session file, in file order
    max_chars,      \* the character budget of the call
    pos,            \* number of lines the loop has consumed
    content_parts,  \* the list content_parts
    outcome,        \* where the call is, and the value returned
    \* --- persistent merge engine (Spec) ---
    knowledge,      \* memory/diary/{quotes,curiosity,decisions,relationship}.md
    daily,          \* memory/<date>.md, per date
    diary,          \* memory/diary/<date>.md, per date
    updateRuns,     \* update_persistent_files calls, per <<script, date, entry>>
    appendCalls,    \* append_to_daily_memory calls that got past the config
                    \* checks, per <<script, date>>
    config_json,    \* config.json, as load_config() returns it
    ops,            \* operations run so far
    \* --- one run of a command line (SpecMain) ---
    args,           \* the parsed command line
    env,            \* what the run finds installed and stored
    pc,             \* where main is
    main_content,   \* main's content (generate.py) / entry_content (save.py)
    failure,        \* how the generation call failed, if it did
    \* --- context assembler (SpecCollect) ---
    agents_dir,     \* agents/main/sessions: whether it exists, and its files
    diary_dir,      \* memory/diary as collect.py reads it: the knowledge files
    collected,      \* the calls made so far, each with what it returned
    \* --- two invocations on one daily memory file (SpecRace) ---
    invocations,    \* per invocation: its script, where it is, what it read
    overlapped,     \* whether an invocation ran while another was under way
    \* --- archiver (SpecArchive) ---
    archive_dir,    \* memory/diary/archive: its files, by name
    clock,          \* the wall clock, in seconds
    moved,          \* the versions archive_entry has moved, in order
    report          \* what the last archive_entry call returned

extractVars == <<doc, extracted>>
parseVars == <<session, max_chars, pos, content_parts, outcome>>
mergeVars == <<knowledge, daily, diary, updateRuns, appendCalls, config_json, ops>>
mainVars == <<args, env, pc, main_content, failure>>
collectVars == <<agents_dir, diary_dir, collected>>
raceVars == <<invocations, overlapped>>
archiveVars == <<archive_dir, clock, moved, report>>
vars == <<doc, extracted, session, max_chars, pos, content_parts, outcome,
          knowledge, daily, diary, updateRuns, appendCalls, config_json, ops,
          args, env, pc, main_content, failure, agents_dir, diary_dir, collected,
          invocations, overlapped, archive_dir, clock, moved, report>>

----------------------------------------------------------------------------
(* Python str helpers, on character sequences.                             *)

\* The characters of an ASCII literal.
Chars(s) == [i \in 1..Len(s) |-> SubSeq(s, i, i)]

\* s[i:] for a 1-based i.
From(s, i) == SubSeq(s, i, Len(s))

\* Whether lit occurs in s at (1-based) position i.
MatchesAt(s, i, lit) ==
    /\ i >= 1
    /\ i + Len(lit) - 1 <= Len(s)
    /\ \A k \in 1..Len(lit) : s[i + k - 1] = lit[k]

\* str.startswith
StartsWith(s, lit) == MatchesAt(s, 1, lit)

\* str.startswith, for a text kept as a string.
StringStartsWith(s, lit) == Len(s) >= Len(lit) /\ SubSeq(s, 1, Len(lit)) = lit

\* lit in s
Contains(s, lit) == \E i \in 1..(Len(s) + 1) : MatchesAt(s, i, lit)

\* s.count(lit) for a non-empty lit that cannot overlap itself.
CountOf(s, lit) == Cardinality({i \in 1..Len(s) : MatchesAt(s, i, lit)})

Min(S) == CHOOSE x \in S : \A y \in S : x <= y
Max(S) == CHOOSE x \in S : \A y \in S : x >= y

\* The characters str.strip() removes (those that occur in the model).
Whitespace == {" ", "\n", "\t", "\r"}

\* str.strip()
Strip(s) ==
    LET keep == {i \in 1..Len(s) : s[i] \notin Whitespace}
    IN  IF keep = {} THEN <<>> ELSE SubSeq(s, Min(keep), Max(keep))

\* str.split('\n'): the lines of s (always at least one), line k running
\* from after the (k-1)-th newline to before the k-th.
SplitLines(s) ==
    LET nl == {i \in 1..Len(s) : s[i] = "\n"}
        nth(k) == CHOOSE i \in nl : Cardinality({j \in nl : j < i}) = k - 1
        first(k) == IF k = 1 THEN 1 ELSE nth(k - 1) + 1
        last(k) == IF k = Cardinality(nl) + 1 THEN Len(s) ELSE nth(k) - 1
    IN  [k \in 1..(Cardinality(nl) + 1) |-> SubSeq(s, first(k), last(k))]

\* sep.join(parts)
RECURSIVE Join(_, _)
Join(parts, sep) ==
    IF parts = <<>> THEN <<>>
    ELSE IF Len(parts) = 1 THEN parts[1]
    ELSE parts[1] \o sep \o Join(Tail(parts), sep)

----------------------------------------------------------------------------
(* The glyphs, as the code points each file holds.                         *)

EmDash == <<"U+2014">>                                 \* the em dash itself
SaveDash == <<"U+201A", "U+00C4", "U+00EE">>           \* save.py:85
GenDash == <<"U+00E2", "U+20AC", "U+201D">>            \* generate.py:300

Categories == {"quotes", "curiosity", "decisions", "relationship"}

\* The heading text of each tracked section.
SectionTitle ==
    [quotes |-> Chars("Quote of the Day"),
     curiosity |-> Chars("Things I'm Curious About"),
     decisions |-> Chars("Key Decisions Made"),
     relationship |-> Chars("Relationship Notes")]

\* The glyph each heading is meant to end in, as its own code points.
Glyph ==
    [quotes |-> <<"U+1F4AC">>,
     curiosity |-> <<"U+1F52E">>,
     decisions |-> <<"U+1F3DB", "U+FE0F">>,
     relationship |-> <<"U+1F91D">>,
     chronicle |-> <<"U+1F4DC">>]

\* The same glyphs as save.py spells them.
SaveGlyph ==
    [quotes |-> <<"U+F8FF", "U+00FC", "U+00ED", "U+00A8">>,
     curiosity |-> <<"U+F8FF", "U+00FC", "U+00EE", "U+00C6">>,
     decisions |-> <<"U+F8FF", "U+00FC", "U+00E8", "U+00F5", "U+00D4",
                     "U+220F", "U+00E8">>,
     relationship |-> <<"U+F8FF", "U+00FC", "U+00A7", "U+00F9">>,
     chronicle |-> <<"U+F8FF", "U+00FC", "U+00EC", "U+00FA">>]

\* The same glyphs as generate.py spells them.
GenGlyph ==
    [quotes |-> <<"U+011F", "U+0178", "U+2019", "U+00AC">>,
     curiosity |-> <<"U+011F", "U+0178", "U+201D", "U+00AE">>,
     decisions |-> <<"U+011F", "U+0178", "U+203A", "U+00EF", "U+00B8">>,
     relationship |-> <<"U+011F", "U+0178", "U+00A4">>,
     chronicle |-> <<"U+011F", "U+0178", "U+201C", "U+0153">>]

----------------------------------------------------------------------------
(* Section extraction: re.search(HEAD + r'\n(.+?)(?=\n##|\Z)', entry,      *)
(* re.DOTALL).                                                             *)

\* Python's None: a one-element sequence that is no text (no character of a
\* text is the string "None").
NotFound == <<"None">>

NextSection == Chars("\n##")

\* The lookahead (?=\n##|\Z) at position p of s.
SectionEnd(s, p) == p = Len(s) + 1 \/ MatchesAt(s, p, NextSection)

\* The start positions at which the whole pattern matches: the literal
\* head (with its \n) is there and at least one character follows for (.+?).
SectionStarts(s, head) ==
    {i \in 1..Len(s) : MatchesAt(s, i, head) /\ i + Len(head) <= Len(s)}

\* group(1) of the leftmost match: the shortest non-empty run after the
\* head that is followed by "\n##" or by the end of the text.
SectionGroup(s, head) ==
    LET i == Min(SectionStarts(s, head))
        b == i + Len(head)
        len == Min({m \in 1..(Len(s) - b + 1) : SectionEnd(s, b + m)})
    IN  SubSeq(s, b, b + len - 1)

\* match.group(1).strip(), or None when re.search finds nothing.
SectionSearch(s, head) ==
    IF SectionStarts(s, head) = {} THEN NotFound
    ELSE Strip(SectionGroup(s, head))

SummaryHead == Chars("## Summary\n")
SaveHead(c) == Chars("## ") \o SectionTitle[c] \o Chars(" ") \o SaveGlyph[c] \o Chars("\n")
GenHead(c) == Chars("## ") \o SectionTitle[c] \o Chars(" ") \o GenGlyph[c] \o Chars("\n")

DefaultSummary == Chars("Diary entry generated.")

\* The candidates of the fallback loops: (i, j) with line i a heading line
\* (starting with mark), i + 1 < len(lines) + 1, j in range(i+1, min(i+5,
\* len(lines))) and line j non-blank and not starting with '#'.  Lines are
\* numbered from 1 here.
FallbackHits(lines, mark) ==
    {p \in (1..Len(lines)) \X (1..Len(lines)) :
        /\ StartsWith(lines[p[1]], mark)
        /\ p[1] < Len(lines)
        /\ p[2] > p[1]
        /\ p[2] <= p[1] + 4
        /\ Strip(lines[p[2]]) # <<>>
        /\ ~StartsWith(lines[p[2]], Chars("#"))}

\* The fallback with the inner loop running to the end of the document
\* instead of over range(i + 1, min(i + 5, len(lines))).
FirstParagraph_NoWindow(lines, mark) ==
    LET ok == {j \in 1..Len(lines) :
                  /\ Strip(lines[j]) # <<>>
                  /\ ~StartsWith(lines[j], Chars("#"))
                  /\ \E i \in 1..(j - 1) : StartsWith(lines[i], mark)}
    IN  IF ok = {} THEN DefaultSummary ELSE Strip(lines[Min(ok)])

\* The first hit in loop order (outer i ascending, inner j ascending).
FirstParagraph(lines, mark) ==
    LET hits == FallbackHits(lines, mark)
        i == Min({p[1] : p \in hits})
        j == Min({p[2] : p \in {q \in hits : q[1] = i}})
    IN  IF hits = {} THEN DefaultSummary ELSE Strip(lines[j])

\* save.py extract_summary
extract_summary(entry_content) ==
    IF SectionSearch(entry_content, SummaryHead) # NotFound
    THEN SectionSearch(entry_content, SummaryHead)
    ELSE FirstParagraph(SplitLines(entry_content), Chars("# "))

\* generate.py extract_summary_from_entry
extract_summary_from_entry(entry_content) ==
    IF SectionSearch(entry_content, SummaryHead) # NotFound
    THEN SectionSearch(entry_content, SummaryHead)
    ELSE FirstParagraph(SplitLines(entry_content), Chars("#"))

----------------------------------------------------------------------------
(* Title extraction: re.search(r'^# \d{4}-\d{2}-\d{2} DASH (.+)$', entry,  *)
(* re.MULTILINE).                                                          *)

Digits == {"0", "1", "2", "3", "4", "5", "6", "7", "8", "9"}

\* \d{4}-\d{2}-\d{2} at the start of s.
IsDatePrefix(s) ==
    /\ Len(s) >= 10
    /\ \A i \in {1, 2, 3, 4, 6, 7, 9, 10} : s[i] \in Digits
    /\ s[5] = "-"
    /\ s[8] = "-"

\* Whether a line matches '# ' DATE ' ' dash ' ' (.+): the group is the
\* non-empty rest of the line ('.' does not cross a newline, $ ends the
\* line).
TitleLine(line, dash) ==
    LET pre == Chars("# ")
        mid == Chars(" ") \o dash \o Chars(" ")
    IN  /\ StartsWith(line, pre)
        /\ IsDatePrefix(From(line, 3))
        /\ MatchesAt(line, 13, mid)
        /\ Len(line) >= 13 + Len(mid)

\* group(1).strip() of the first matching line, else None.
TitleSearch(entry_content, dash) ==
    LET lines == SplitLines(entry_content)
        hits == {i \in 1..Len(lines) : TitleLine(lines[i], dash)}
    IN  IF hits = {} THEN NotFound
        ELSE Strip(From(lines[Min(hits)], 13 + Len(dash) + 2))

\* save.py extract_title
extract_title(entry_content) == TitleSearch(entry_content, SaveDash)

\* generate.py extract_title_from_entry
extract_title_from_entry(entry_content) == TitleSearch(entry_content, GenDash)

----------------------------------------------------------------------------
(* collect.py parse_jsonl_session.  A line of the session file is what     *)
(* line.strip() and json.loads make of it: blank, not JSON, or a JSON      *)
(* value [t |-> <Python type name>, v |-> <value>].  A dict's v is a       *)
(* function from its keys to JSON values.                                  *)

JStr(s) == [t |-> "str", v |-> s]
JInt(n) == [t |-> "int", v |-> n]
JNull == [t |-> "NoneType", v |-> 0]
JList(xs) == [t |-> "list", v |-> xs]
JDict(d) == [t |-> "dict", v |-> d]
EmptyDict == JDict(<<>>)

\* dict.get(k, default)
Get(d, k, default) == IF k \in DOMAIN d.v THEN d.v[k] ELSE default

\* What a step of the loop body gives: parts to append, or an exception.
Ok(parts) == [raised |-> FALSE, msg |-> "", parts |-> parts]
Raise(msg) == [raised |-> TRUE, msg |-> msg, parts |-> <<>>]
Then(a, b) ==
    IF a.raised THEN a ELSE IF b.raised THEN b ELSE Ok(a.parts \o b.parts)

\* x.get(...) on a value: only a dict has it.
NoAttribute(x, attr) ==
    Raise("'" \o x.t \o "' object has no attribute '" \o attr \o "'")
NotIterable(x) == Raise("'" \o x.t \o "' object is not iterable")

\* bool(x)
Truthy(x) ==
    CASE x.t = "str" -> x.v # ""
      [] x.t = "int" -> x.v # 0
      [] x.t = "NoneType" -> FALSE
      [] x.t = "list" -> x.v # <<>>
      [] x.t = "dict" -> DOMAIN x.v # {}

\* str(x) and f"{x}" for the scalar values of the model.
Fmt(x) ==
    CASE x.t = "str" -> x.v
      [] x.t = "int" -> ToString(x.v)
      [] x.t = "NoneType" -> "None"

Greeting == "A new session was started"
TruncationMarker == "\n[... truncated for context ...]"
NoContent_Empty == ""
NoContent == "[No content extracted]"
PreviewLen == 500

IsTextItem(item) == item.t = "dict" /\ Get(item, "type", JNull) = JStr("text")

\* lines 96-101: the text items of a user message's content list.
RECURSIVE UserItems(_)
UserItems(items) ==
    IF items = <<>> THEN Ok(<<>>)
    ELSE LET item == Head(items)
             text == Get(item, "text", JStr(""))
             one == IF ~IsTextItem(item) THEN Ok(<<>>)
                    ELSE IF text.t # "str" THEN NoAttribute(text, "startswith")
                    ELSE IF StringStartsWith(text.v, Greeting) THEN Ok(<<>>)
                    ELSE Ok(<<"User: " \o text.v>>)
         IN  Then(one, UserItems(Tail(items)))

\* lines 94-104
UserParts(content) ==
    IF content.t = "list" THEN UserItems(content.v)
    ELSE IF content.t = "str"
         THEN IF StringStartsWith(content.v, Greeting) THEN Ok(<<>>)
              ELSE Ok(<<"User: " \o content.v>>)
    ELSE Ok(<<>>)

\* lines 109-111
RECURSIVE AssistantItems(_)
AssistantItems(items) ==
    IF items = <<>> THEN <<>>
    ELSE (IF IsTextItem(Head(items))
          THEN <<"Assistant: " \o Fmt(Get(Head(items), "text", JStr("")))>>
          ELSE <<>>) \o AssistantItems(Tail(items))

\* lines 108-113
AssistantText(content) ==
    IF content.t = "list" THEN Ok(AssistantItems(content.v))
    ELSE IF content.t = "str" THEN Ok(<<"Assistant: " \o content.v>>)
    ELSE Ok(<<>>)

\* lines 117-119: one line per tool call.
RECURSIVE ToolCallItems(_)
ToolCallItems(calls) ==
    IF calls = <<>> THEN Ok(<<>>)
    ELSE LET tc == Head(calls)
             fn == Get(tc, "function", EmptyDict)
             one == IF tc.t # "dict" THEN NoAttribute(tc, "get")
                    ELSE IF fn.t # "dict" THEN NoAttribute(fn, "get")
                    ELSE Ok(<<"[Tool: " \o Fmt(Get(fn, "name", JStr("unknown")))
                              \o "] " \o Fmt(Get(fn, "arguments", JStr("")))>>)
         IN  Then(one, ToolCallItems(Tail(calls)))

\* lines 116-119
ToolCallParts(msg) ==
    IF "tool_calls" \notin DOMAIN msg.v THEN Ok(<<>>)
    ELSE LET calls == Get(msg, "tool_calls", JList(<<>>))
         IN  IF calls.t # "list" THEN NotIterable(calls)
             ELSE ToolCallItems(calls.v)

\* The tool calls emitted before the text.
AssistantParts_ToolsFirst(msg) ==
    Then(ToolCallParts(msg), AssistantText(Get(msg, "content", JStr(""))))

\* lines 107-119: the assistant's text, then its tool calls.
AssistantParts(msg) ==
    Then(AssistantText(Get(msg, "content", JStr(""))), ToolCallParts(msg))

\* lines 88-119
MessageParts(entry) ==
    LET msg == Get(entry, "message", EmptyDict)
        role == Get(msg, "role", JStr(""))
    IN  IF msg.t # "dict" THEN NoAttribute(msg, "get")
        ELSE IF role = JStr("user") THEN UserParts(Get(msg, "content", JStr("")))
        ELSE IF role = JStr("assistant") THEN AssistantParts(msg)
        ELSE Ok(<<>>)

\* lines 121-125
ToolResultParts(entry) ==
    LET result == Get(entry, "result", EmptyDict)
        result_text == IF result.t = "dict" THEN Get(result, "text", JStr(""))
                       ELSE JStr(Fmt(result))
    IN  IF ~Truthy(result_text) THEN Ok(<<>>)
        ELSE IF result_text.t # "str"
             THEN Raise("'" \o result_text.t \o "' object is not subscriptable")
        ELSE Ok(<<"[Tool Result]: " \o
                  SubSeq(result_text.v, 1,
                         IF Len(result_text.v) < PreviewLen
                         THEN Len(result_text.v) ELSE PreviewLen)>>)

\* lines 127-130
ToolErrorParts(entry) ==
    LET error == Get(entry, "error", JStr(""))
    IN  IF Truthy(error) THEN Ok(<<"[Tool Error]: " \o Fmt(error)>>) ELSE Ok(<<>>)

\* lines 83-130: the body of the inner try for a line json.loads accepted.
EntryParts(entry) ==
    IF entry.t # "dict" THEN NoAttribute(entry, "get")
    ELSE LET entry_type == Get(entry, "type", JNull)
         IN  IF entry_type = JStr("message") THEN MessageParts(entry)
             ELSE IF entry_type = JStr("tool_result") THEN ToolResultParts(entry)
             ELSE IF entry_type = JStr("tool_error") THEN ToolErrorParts(entry)
             ELSE Ok(<<>>)

\* sum(len(p) for p in content_parts)
RECURSIVE TotalLen(_)
TotalLen(parts) ==
    IF parts = <<>> THEN 0 ELSE Len(Head(parts)) + TotalLen(Tail(parts))

\* "\n\n".join(content_parts)
RECURSIVE JoinParts(_)
JoinParts(parts) ==
    IF parts = <<>> THEN ""
    ELSE IF Len(parts) = 1 THEN parts[1]
    ELSE parts[1] \o "\n\n" \o JoinParts(Tail(parts))

\* Where the call is: not made, in the loop, past the loop, returned.
Idle == [st |-> "idle", ret |-> ""]
Reading == [st |-> "reading", ret |-> ""]
LoopDone == [st |-> "loop_done", ret |-> ""]
Returned(text) == [st |-> "returned", ret |-> text]

\* What strip() and json.loads make of a line that is no JSON value.
Blank == [t |-> "blank", v |-> 0]
NotJson == [t |-> "not_json", v |-> 0]

CurrentLine == session[pos + 1].json
Skipped(line) == line.t \in {"blank", "not_json"}

\* What open() or the read of a line raises instead of giving a line
\* (lines 76-77): an OSError, a UnicodeDecodeError.
ReadError(msg) == [t |-> "raise", v |-> msg]
Unreadable(line) == line.t = "raise"

ReadingLine == outcome = Reading /\ pos < Len(session) /\ ~Unreadable(CurrentLine)

\* lines 79-81 and 132-133: a blank line or one json.loads rejects is
\* skipped by continue.
SkipLine ==
    /\ ReadingLine
    /\ Skipped(CurrentLine)
    /\ pos' = pos + 1
    /\ UNCHANGED <<session, max_chars, content_parts, outcome, extractVars, mergeVars, mainVars, collectVars, raceVars, archiveVars>>

\* lines 140-141: any other exception of the loop body leaves the function.
RaiseOnLine ==
    /\ ReadingLine
    /\ ~Skipped(CurrentLine)
    /\ EntryParts(CurrentLine).raised
    /\ outcome' = Returned("[Error reading session: "
                           \o EntryParts(CurrentLine).msg \o "]")
    /\ pos' = pos + 1
    /\ UNCHANGED <<session, max_chars, content_parts, extractVars, mergeVars, mainVars, collectVars, raceVars, archiveVars>>

\* lines 76-77 and 140-141: the open or the read of the next line raises,
\* and the handler returns the error line.
RaiseOnRead ==
    /\ outcome = Reading /\ pos < Len(session)
    /\ Unreadable(CurrentLine)
    /\ outcome' = Returned("[Error reading session: " \o CurrentLine.v \o "]")
    /\ pos' = pos + 1
    /\ UNCHANGED <<session, max_chars, content_parts, extractVars, mergeVars, mainVars, collectVars, raceVars, archiveVars>>

\* lines 83-137: the line's parts are appended and the total is within
\* max_chars.
EmitLine ==
    /\ ReadingLine
    /\ ~Skipped(CurrentLine)
    /\ ~EntryParts(CurrentLine).raised
    /\ LET parts == content_parts \o EntryParts(CurrentLine).parts
       IN  /\ ~(TotalLen(parts) > max_chars)
           /\ content_parts' = parts
    /\ pos' = pos + 1
    /\ UNCHANGED <<session, max_chars, outcome, extractVars, mergeVars, mainVars, collectVars, raceVars, archiveVars>>

\* lines 83-139: the total has passed max_chars: the marker is appended and
\* the loop left.
EmitAndTruncate ==
    /\ ReadingLine
    /\ ~Skipped(CurrentLine)
    /\ ~EntryParts(CurrentLine).raised
    /\ LET parts == content_parts \o EntryParts(CurrentLine).parts
       IN  /\ TotalLen(parts) > max_chars
           /\ content_parts' = Append(parts, TruncationMarker)
    /\ pos' = pos + 1
    /\ outcome' = LoopDone
    /\ UNCHANGED <<session, max_chars, extractVars, mergeVars, mainVars, collectVars, raceVars, archiveVars>>

\* lines 143-144
ReturnResult ==
    /\ \/ outcome = LoopDone
       \/ outcome = Reading /\ pos = Len(session)
    /\ outcome' = Returned(IF JoinParts(content_parts) # ""
                           THEN JoinParts(content_parts) ELSE NoContent)
    /\ UNCHANGED <<session, max_chars, pos, content_parts, extractVars, mergeVars, mainVars, collectVars, raceVars, archiveVars>>

NextParse ==
    \/ SkipLine
    \/ RaiseOnRead
    \/ RaiseOnLine
    \/ EmitLine
    \/ EmitAndTruncate
    \/ ReturnResult

----------------------------------------------------------------------------
(* The persistent merge engine: update_persistent_files and                *)
(* append_to_daily_memory of save.py and of generate.py, on the files      *)
(* under memory/.  An entry is handed to them as the record Read(text)     *)
(* builds: the text, and what each script's searches find in it, so that   *)
(* the searches of an entry of the pool are computed once.                 *)

\* A path that does not exist: a one-element sequence that is no text.
NoFile == <<"NoFile">>

\* The same write with the file opened in mode 'w'.
AppendTo_Truncating(file, text) == text

\* open(path, 'a').write(text) on an existing file.
AppendTo(file, text) == file \o text

TrivialLen == 10

\* The four re.search calls of save.py update_persistent_files (lines 107,
\* 120, 133, 146), each with its .strip().
SaveSections(entry_content) ==
    [quotes |-> SectionSearch(entry_content, SaveHead("quotes")),
     curiosity |-> SectionSearch(entry_content, SaveHead("curiosity")),
     decisions |-> SectionSearch(entry_content, SaveHead("decisions")),
     relationship |-> SectionSearch(entry_content, SaveHead("relationship"))]

\* The four re.search calls of generate.py update_persistent_files (lines
\* 384, 397, 410, 423).
GenSections(entry_content) ==
    [quotes |-> SectionSearch(entry_content, GenHead("quotes")),
     curiosity |-> SectionSearch(entry_content, GenHead("curiosity")),
     decisions |-> SectionSearch(entry_content, GenHead("decisions")),
     relationship |-> SectionSearch(entry_content, GenHead("relationship"))]

\* re.search(r'^# (\d{4}-\d{2}-\d{2})', entry_content, re.MULTILINE):
\* group(1), or None (save.py 239).
DateFromTitle(entry_content) ==
    LET lines == SplitLines(entry_content)
        hits == {i \in 1..Len(lines) :
                    StartsWith(lines[i], Chars("# ")) /\ IsDatePrefix(From(lines[i], 3))}
    IN  IF hits = {} THEN NotFound ELSE SubSeq(lines[Min(hits)], 3, 12)

\* An entry text with the results of the searches the scripts run on it.
Read(entry_content) ==
    [text |-> entry_content,
     save_sections |-> SaveSections(entry_content),
     save_summary |-> extract_summary(entry_content),
     save_title |-> extract_title(entry_content),
     gen_sections |-> GenSections(entry_content),
     gen_summary |-> extract_summary_from_entry(entry_content),
     gen_title |-> extract_title_from_entry(entry_content),
     title_date |-> DateFromTitle(entry_content)]

Subsection(date_str, body) ==
    Chars("\n### ") \o date_str \o Chars("\n") \o body \o Chars("\n")

\* One block of update_persistent_files (save.py 108-116, and alike for the
\* other categories and for generate.py), content being the stripped group
\* or None: a body longer than 10 characters is appended as a dated
\* subsection, to the file created with its preamble when it does not
\* exist.
UpdateFile(file, content, preamble, date_str) ==
    IF content # NotFound /\ content # <<>> /\ Len(content) > TrivialLen
    THEN AppendTo(IF file = NoFile THEN preamble ELSE file,
                  Subsection(date_str, content))
    ELSE file

SavePreamble ==
    [quotes |-> Chars("# Quote Hall of Fame ") \o SaveGlyph.quotes
                \o Chars("\n\nMemorable quotes from my human.\n\n---\n\n"),
     curiosity |-> Chars("# Curiosity Backlog ") \o SaveGlyph.curiosity
                \o Chars("\n\nThings I want to explore.\n\n---\n\n## Active\n\n"),
     decisions |-> Chars("# Decision Archaeology ") \o SaveGlyph.decisions
                \o Chars("\n\nJudgment calls worth remembering.\n\n---\n\n"),
     relationship |-> Chars("# Relationship Evolution ") \o SaveGlyph.relationship
                \o Chars("\n\nHow my dynamic with my human evolves.\n\n---\n\n")]

GenPreamble ==
    [quotes |-> Chars("# Quote Hall of Fame ") \o GenGlyph.quotes
                \o Chars("\n\nMemorable quotes from Robby.\n\n---\n\n"),
     curiosity |-> Chars("# Curiosity Backlog ") \o GenGlyph.curiosity
                \o Chars("\n\nThings I want to explore.\n\n---\n\n## Active\n\n"),
     decisions |-> Chars("# Decision Archaeology ") \o GenGlyph.decisions
                \o Chars("\n\nJudgment calls worth remembering.\n\n---\n\n"),
     relationship |-> Chars("# Relationship Evolution ") \o GenGlyph.relationship
                \o Chars("\n\nHow my dynamic with Robby evolves.\n\n---\n\n")]

\* save.py update_persistent_files: the knowledge files after the call.
save_update_persistent_files(entry, date_str, files) ==
    [c \in Categories |->
        UpdateFile(files[c], entry.save_sections[c], SavePreamble[c], date_str)]

\* generate.py update_persistent_files
generate_update_persistent_files(entry, date_str, files) ==
    [c \in Categories |->
        UpdateFile(files[c], entry.gen_sections[c], GenPreamble[c], date_str)]

DEFAULT_DIARY_PATH == Chars("memory/diary/")

SaveChronicleHeading == Chars("## ") \o SaveGlyph.chronicle \o Chars(" Daily Chronicle")
GenChronicleHeading == Chars("## ") \o GenGlyph.chronicle \o Chars(" Daily Chronicle")

\* lines 178-186 (save.py), 342-350 (generate.py): the block to append.
ChronicleContent(heading, format_type, entry_content, date_str, summary, title) ==
    Chars("\n\n") \o heading \o Chars("\n") \o
    ( IF format_type = "link"
      THEN Chars("[View diary entry](") \o DEFAULT_DIARY_PATH \o date_str \o Chars(".md)\n")
      ELSE IF format_type = "full"
      THEN entry_content \o Chars("\n")
      ELSE (IF title # NotFound /\ title # <<>>
            THEN Chars("**") \o title \o Chars("**\n\n") ELSE <<>>)
           \o summary \o Chars("\n") )

DailyHeader(date_str) == Chars("# ") \o date_str \o Chars("\n\n*Daily memory log*\n")

\* lines 191-203 (save.py), 360-373 (generate.py): the check for the
\* heading and the write.
WriteChronicle(file, heading, content, date_str) ==
    IF file # NoFile
    THEN IF Contains(file, heading) THEN file ELSE AppendTo(file, content)
    ELSE DailyHeader(date_str) \o content

\* Whether memory integration lets the call through (lines 163-169).
Integrates(config) == config.enabled /\ config.append_to_daily

\* save.py append_to_daily_memory: the daily memory file after the call.
save_append_to_daily_memory(entry, date_str, config, file) ==
    IF ~Integrates(config) THEN file
    ELSE WriteChronicle(file, SaveChronicleHeading,
             ChronicleContent(SaveChronicleHeading, config.format, entry.text,
                              date_str, entry.save_summary, entry.save_title),
             date_str)

\* generate.py append_to_daily_memory
generate_append_to_daily_memory(entry, date_str, config, file, dry_run) ==
    IF ~Integrates(config) \/ dry_run THEN file
    ELSE WriteChronicle(file, GenChronicleHeading,
             ChronicleContent(GenChronicleHeading, config.format, entry.text,
                              date_str, entry.gen_summary, entry.gen_title),
             date_str)

\* generate.py interactive_mode, lines 463-500: the markdown built from the
\* answers.
interactive_mode(date_str, entry) ==
    Chars("# ") \o date_str \o Chars(" ") \o GenDash \o Chars(" ") \o entry.title
    \o Chars("\n\n## Summary\n") \o entry.summary
    \o Chars("\n\n## Projects Worked On\n") \o entry.projects
    \o Chars("\n\n## Wins ") \o <<"U+011F", "U+0178", "U+2030">> \o Chars("\n") \o entry.wins
    \o Chars("\n\n## Frustrations ") \o <<"U+011F", "U+0178", "U+02DC", "U+00A4">> \o Chars("\n") \o entry.frustrations
    \o Chars("\n\n## Learnings ") \o <<"U+011F", "U+0178", "U+201C", "U+0161">> \o Chars("\n") \o entry.learnings
    \o Chars("\n\n## Emotional State\n") \o entry.emotional_state
    \o Chars("\n\n## Notable Interactions\n") \o entry.interactions
    \o Chars("\n\n## Quote of the Day ") \o GenGlyph.quotes \o Chars("\n") \o entry.quotes
    \o Chars("\n\n## Things I'm Curious About ") \o GenGlyph.curiosity \o Chars("\n") \o entry.curiosity
    \o Chars("\n\n## Key Decisions Made ") \o GenGlyph.decisions \o Chars("\n") \o entry.decisions
    \o Chars("\n\n## Relationship Notes ") \o GenGlyph.relationship \o Chars("\n") \o entry.relationship
    \o Chars("\n\n## Tomorrow's Focus\n") \o entry.tomorrow
    \o Chars("\n")

\* The memory/ tree untouched: what the extractor and parser runs see of it.
MergeIdle ==
    /\ knowledge = [c \in Categories |-> NoFile]
    /\ daily = << >>
    /\ diary = << >>
    /\ updateRuns = << >>
    /\ appendCalls = << >>
    /\ config_json = << >>
    /\ ops = 0

\* No command line running.
MainIdle ==
    /\ args = << >>
    /\ env = << >>
    /\ pc = "idle"
    /\ main_content = << >>
    /\ failure = "none"

\* No context collected.
CollectIdle ==
    /\ agents_dir = << >>
    /\ diary_dir = << >>
    /\ collected = << >>

\* No invocation under way.
RaceIdle ==
    /\ invocations = << >>
    /\ overlapped = FALSE

\* The archiver not run: no archive directory, the clock not read.
ArchiveIdle ==
    /\ archive_dir = << >>
    /\ clock = 0
    /\ moved = << >>
    /\ report = << >>

----------------------------------------------------------------------------
(* The extractor under test: a document is drawn, then any of the          *)
(* extraction functions is applied to it.                                  *)

MaxDocLines == 3

Date1 == Chars("2024-05-01")

TitleReal == Chars("# ") \o Date1 \o Chars(" ") \o EmDash \o Chars(" Launch Day")
TitleSave == Chars("# ") \o Date1 \o Chars(" ") \o SaveDash \o Chars(" Launch Day")
TitleGen == Chars("# ") \o Date1 \o Chars(" ") \o GenDash \o Chars(" Launch Day")
QuoteLineSave == Chars("## Quote of the Day ") \o SaveGlyph.quotes
QuoteLineReal == Chars("## Quote of the Day ") \o Glyph.quotes
QuoteLineLower == Chars("## quote of the day ") \o SaveGlyph.quotes
QuoteLineBare == Chars("## Quote of the Day")

\* The lines documents are made of.
LinePool ==
    { TitleReal,
      TitleSave,
      Chars("# Notes"),
      Chars("## Summary"),
      Chars("### Summary"),
      QuoteLineSave,
      QuoteLineReal,
      Chars("A fine day."),
      <<>> }

\* Further documents: the reach of the fallback loops, a heading at the
\* very end, generate.py's spelling of the title, other spellings of a
\* section heading.
ExtraDocs ==
    { Chars("# Notes\n\n\n\n\nA fine day."),
      Chars("# Notes\n\n\n\nA fine day."),
      Chars("Intro\n## Summary"),
      Chars("## Summary\n"),
      TitleGen \o Chars("\n## Summary\nA fine day.\n"),
      QuoteLineLower \o Chars("\nA fine day.\n"),
      QuoteLineBare \o Chars("\nA fine day.\n") }

RECURSIVE LineSeqs(_)
LineSeqs(n) ==
    IF n = 0 THEN {<<>>}
    ELSE LineSeqs(n - 1) \cup
         {Append(ls, l) : ls \in {x \in LineSeqs(n - 1) : Len(x) = n - 1}, l \in LinePool}

Documents == {Join(ls, Chars("\n")) : ls \in LineSeqs(MaxDocLines) \ {<<>>}} \cup ExtraDocs

NoCall == [op |-> "none", cat |-> "none", result |-> NotFound]

ExtractIdle ==
    /\ session = <<>>
    /\ max_chars = 0
    /\ pos = 0
    /\ content_parts = <<>>
    /\ outcome = Idle

InitExtract ==
    /\ doc \in Documents
    /\ extracted = NoCall
    /\ ExtractIdle
    /\ MergeIdle
    /\ MainIdle
    /\ CollectIdle
    /\ RaceIdle
    /\ ArchiveIdle

CallExtractSummary ==
    /\ extracted' = [op |-> "extract_summary", cat |-> "summary",
                     result |-> extract_summary(doc)]
    /\ UNCHANGED <<doc, parseVars, mergeVars, mainVars, collectVars, raceVars, archiveVars>>

CallExtractSummaryFromEntry ==
    /\ extracted' = [op |-> "extract_summary_from_entry", cat |-> "summary",
                     result |-> extract_summary_from_entry(doc)]
    /\ UNCHANGED <<doc, parseVars, mergeVars, mainVars, collectVars, raceVars, archiveVars>>

CallExtractTitle ==
    /\ extracted' = [op |-> "extract_title", cat |-> "title",
                     result |-> extract_title(doc)]
    /\ UNCHANGED <<doc, parseVars, mergeVars, mainVars, collectVars, raceVars, archiveVars>>

CallExtractTitleFromEntry ==
    /\ extracted' = [op |-> "extract_title_from_entry", cat |-> "title",
                     result |-> extract_title_from_entry(doc)]
    /\ UNCHANGED <<doc, parseVars, mergeVars, mainVars, collectVars, raceVars, archiveVars>>

\* The section search update_persistent_files of save.py runs per category.
CallSectionSearch(c) ==
    /\ extracted' = [op |-> "section_search", cat |-> c,
                     result |-> SectionSearch(doc, SaveHead(c))]
    /\ UNCHANGED <<doc, parseVars, mergeVars, mainVars, collectVars, raceVars, archiveVars>>

NextExtract ==
    \/ CallExtractSummary
    \/ CallExtractSummaryFromEntry
    \/ CallExtractTitle
    \/ CallExtractTitleFromEntry
    \/ \E c \in Categories : CallSectionSearch(c)

SpecExtract == InitExtract /\ [][NextExtract]_vars

----------------------------------------------------------------------------
(* The parser under test: a session file is drawn, each line with the      *)
(* record it was written from (src), and parsed line by line.              *)

MaxSessionLines == 3
DefaultMaxChars == 15000

Budgets == {10, 30, DefaultMaxChars}

MessageLine(role, content) ==
    JDict([type |-> JStr("message"),
           message |-> JDict([role |-> JStr(role), content |-> content])])

ToolCall(name, arguments) ==
    JDict([function |-> JDict([name |-> JStr(name), arguments |-> JStr(arguments)])])

Src(kind, text) == [kind |-> kind, text |-> text, tool |-> "", args |-> ""]

UserLine(text) ==
    [src |-> Src("user", text), json |-> MessageLine("user", JStr(text))]
UserItemsLine(text) ==
    [src |-> Src("user", text),
     json |-> MessageLine("user",
                  JList(<<JDict([type |-> JStr("image")]),
                          JDict([type |-> JStr("text"), text |-> JStr(text)])>>))]
AssistantLine(text) ==
    [src |-> Src("assistant", text), json |-> MessageLine("assistant", JStr(text))]
AssistantToolLine(text, name, arguments) ==
    [src |-> [kind |-> "assistant", text |-> text, tool |-> name, args |-> arguments],
     json |-> JDict([type |-> JStr("message"),
                     message |-> JDict([role |-> JStr("assistant"),
                                        content |-> JStr(text),
                                        tool_calls |-> JList(<<ToolCall(name, arguments)>>)])])]
ToolResultLine(text) ==
    [src |-> Src("tool_result", text),
     json |-> JDict([type |-> JStr("tool_result"), result |-> JDict([text |-> JStr(text)])])]
ToolErrorLine(text) ==
    [src |-> Src("tool_error", text),
     json |-> JDict([type |-> JStr("tool_error"), error |-> JStr(text)])]

\* Lines that are malformed: not JSON, JSON but no object, and records whose
\* message or tool_calls field has another type than expected.
Malformed(json) == [src |-> Src("malformed", ""), json |-> json]
NotJsonLine == Malformed(NotJson)
JsonArrayLine == Malformed(JList(<<JInt(1), JInt(2)>>))
JsonNumberLine == Malformed(JInt(7))
MessageNotObjectLine ==
    Malformed(JDict([type |-> JStr("message"), message |-> JStr("oops")]))
ToolCallsNullLine ==
    Malformed(JDict([type |-> JStr("message"),
                     message |-> JDict([role |-> JStr("assistant"),
                                        content |-> JStr("Hm."),
                                        tool_calls |-> JNull])]))
BlankLine == [src |-> Src("blank", ""), json |-> Blank]
GreetingLine ==
    [src |-> Src("greeting", Greeting \o " via /new."),
     json |-> MessageLine("user", JStr(Greeting \o " via /new."))]

ParseLinePool ==
    { UserLine("Fix the build."),
      UserItemsLine("And the tests?"),
      AssistantLine("Done."),
      AssistantToolLine("Looking.", "read", "{}"),
      ToolResultLine("ok"),
      ToolErrorLine("boom"),
      GreetingLine,
      BlankLine,
      NotJsonLine,
      JsonArrayLine,
      MessageNotObjectLine,
      ToolCallsNullLine }

RECURSIVE Repeat(_, _)
Repeat(s, n) == IF n = 0 THEN "" ELSE s \o Repeat(s, n - 1)

\* 3 user messages, 2 assistant messages (one with a tool call), 1 tool
\* error.
Transcript321 ==
    << UserLine("Fix the build."),
       AssistantToolLine("Looking.", "read", "{}"),
       ToolErrorLine("boom"),
       UserLine("Try again."),
       AssistantLine("Done."),
       UserLine("Thanks.") >>

\* A file that cannot be opened, and one whose second line cannot be
\* decoded.
NoSuchFile ==
    [src |-> Src("unreadable", ""),
     json |-> ReadError("[Errno 2] No such file or directory: 'gone.jsonl'")]
BadBytes ==
    [src |-> Src("unreadable", ""),
     json |-> ReadError("'utf-8' codec can't decode byte 0xff in position 0: invalid start byte")]

ExtraSessions ==
    { Transcript321,
      <<ToolResultLine(Repeat("0123456789", 51)), JsonNumberLine>>,
      <<NoSuchFile>>,
      <<UserLine("Fix the build."), BadBytes, AssistantLine("Done.")>>,
      <<BlankLine, NotJsonLine, BadBytes>> }

RECURSIVE SessionsOf(_)
SessionsOf(n) ==
    IF n = 0 THEN {<<>>}
    ELSE SessionsOf(n - 1) \cup
         {Append(ls, l) : ls \in {x \in SessionsOf(n - 1) : Len(x) = n - 1},
                          l \in ParseLinePool}

Sessions == SessionsOf(MaxSessionLines) \cup ExtraSessions

ParseIdle ==
    /\ doc = <<>>
    /\ extracted = NoCall

InitParse ==
    /\ session \in Sessions
    /\ max_chars \in Budgets
    /\ pos = 0
    /\ content_parts = <<>>
    /\ outcome = Reading
    /\ ParseIdle
    /\ MergeIdle
    /\ MainIdle
    /\ CollectIdle
    /\ RaceIdle
    /\ ArchiveIdle

SpecParse == InitParse /\ [][NextParse]_vars

----------------------------------------------------------------------------
(* The merge engine under test: entries in the heading spelling of either  *)
(* script, saved and merged for two dates by the functions and by the two  *)
(* command lines, under one config.json.                                   *)

MaxOps == 3

Date2 == Chars("2024-05-02")
Dates == {Date1, Date2}
Today == Date2
Scripts == {"save", "generate"}
Formats == {"link", "full", "summary"}

\* The answers interactive_mode asks for, lines 443-460.
NoAnswers ==
    [title |-> <<>>, summary |-> <<>>, projects |-> <<>>, wins |-> <<>>,
     frustrations |-> <<>>, learnings |-> <<>>, emotional_state |-> <<>>,
     interactions |-> <<>>, quotes |-> <<>>, curiosity |-> <<>>,
     decisions |-> <<>>, relationship |-> <<>>, tomorrow |-> <<>>]

FullDay ==
    [NoAnswers EXCEPT !.title = Chars("Launch Day"),
                      !.summary = Chars("Shipped the release."),
                      !.quotes = Chars("Ship it, then sleep."),
                      !.curiosity = Chars("Why do caches lie?"),
                      !.decisions = Chars("Chose boring tech."),
                      !.relationship = Chars("More trust, fewer checks.")]

SparseDay ==
    [NoAnswers EXCEPT !.quotes = Chars("Keep going, always."),
                      !.decisions = Chars("n/a"),
                      !.relationship = Chars("-")]

\* An entry as save.py reads it from stdin or a file (lines 220-224),
\* written with the headings save.py searches for.
SaveDocument(date_str, entry) ==
    Chars("# ") \o date_str \o Chars(" ") \o SaveDash \o Chars(" ") \o entry.title
    \o Chars("\n\n## Summary\n") \o entry.summary
    \o Chars("\n\n## Quote of the Day ") \o SaveGlyph.quotes \o Chars("\n") \o entry.quotes
    \o Chars("\n\n## Things I'm Curious About ") \o SaveGlyph.curiosity \o Chars("\n") \o entry.curiosity
    \o Chars("\n\n## Key Decisions Made ") \o SaveGlyph.decisions \o Chars("\n") \o entry.decisions
    \o Chars("\n\n## Relationship Notes ") \o SaveGlyph.relationship \o Chars("\n") \o entry.relationship
    \o Chars("\n")

\* A pool entry: written on date_str in the spelling of one script.
Written(dialect, date_str, answers) ==
    [dialect |-> dialect, date |-> date_str, answers |-> answers,
     entry |-> Read(IF dialect = "save" THEN SaveDocument(date_str, answers)
                    ELSE interactive_mode(date_str, answers))]

Entries ==
    << Written("save", Date1, FullDay), Written("save", Date2, SparseDay),
       Written("generate", Date1, FullDay), Written("generate", Date2, SparseDay) >>

EntryIds == DOMAIN Entries

Configs ==
    {[enabled |-> TRUE, append_to_daily |-> TRUE, format |-> f] : f \in Formats}
    \cup {[enabled |-> FALSE, append_to_daily |-> TRUE, format |-> "summary"]}

\* A daily memory file that holds the day's raw log and no chronicle.
RawLog(date_str) == Chars("# ") \o date_str \o Chars("\n\nraw notes")

Init ==
    /\ knowledge = [c \in Categories |-> NoFile]
    /\ daily \in {[d \in Dates |-> NoFile], [d \in Dates |-> RawLog(d)]}
    /\ diary = [d \in Dates |-> NoFile]
    /\ updateRuns = [k \in Scripts \X EntryIds |-> 0]
    /\ appendCalls = [k \in Scripts \X Dates |-> 0]
    /\ config_json \in Configs
    /\ ops = 0
    /\ doc = <<>>
    /\ extracted = NoCall
    /\ ExtractIdle
    /\ MainIdle
    /\ CollectIdle
    /\ RaceIdle
    /\ ArchiveIdle

Bump(counter, key) == [counter EXCEPT ![key] = @ + 1]

Step ==
    /\ ops < MaxOps
    /\ ops' = ops + 1
    /\ UNCHANGED <<config_json, extractVars, parseVars, mainVars, collectVars, raceVars, archiveVars>>

\* save.py update_persistent_files(entry_content, date_str, diary_dir)
SaveUpdatePersistentFiles(e) ==
    /\ Step
    /\ knowledge' = save_update_persistent_files(Entries[e].entry, Entries[e].date, knowledge)
    /\ updateRuns' = Bump(updateRuns, <<"save", e>>)
    /\ UNCHANGED <<daily, diary, appendCalls>>

\* generate.py update_persistent_files(entry_content, date_str, workspace)
GenerateUpdatePersistentFiles(e) ==
    /\ Step
    /\ knowledge' = generate_update_persistent_files(Entries[e].entry, Entries[e].date, knowledge)
    /\ updateRuns' = Bump(updateRuns, <<"generate", e>>)
    /\ UNCHANGED <<daily, diary, appendCalls>>

\* save.py append_to_daily_memory(entry_content, date_str, config, workspace)
SaveAppendToDailyMemory(e) ==
    LET d == Entries[e].date
    IN  /\ Step
        /\ daily' = [daily EXCEPT
                       ![d] = save_append_to_daily_memory(Entries[e].entry, d, config_json, @)]
        /\ appendCalls' = IF Integrates(config_json)
                          THEN Bump(appendCalls, <<"save", d>>) ELSE appendCalls
        /\ UNCHANGED <<knowledge, diary, updateRuns>>

\* generate.py append_to_daily_memory(entry_content, date_str, config,
\* workspace, dry_run)
GenerateAppendToDailyMemory(e, dry_run) ==
    LET d == Entries[e].date
    IN  /\ Step
        /\ daily' = [daily EXCEPT
                       ![d] = generate_append_to_daily_memory(Entries[e].entry, d,
                                                              config_json, @, dry_run)]
        /\ appendCalls' = IF Integrates(config_json) /\ ~dry_run
                          THEN Bump(appendCalls, <<"generate", d>>) ELSE appendCalls
        /\ UNCHANGED <<knowledge, diary, updateRuns>>

\* save.py main, from the date on (lines 230-278): --date given (the date
\* the entry was written on) or no date option at all.
SaveMain(e, date_given, dry_run, no_persistent) ==
    LET entry == Entries[e].entry
        date_str == IF date_given THEN Entries[e].date
                    ELSE IF entry.title_date # NotFound THEN entry.title_date
                    ELSE Today
        updates == ~no_persistent
    IN  /\ Step
        /\ diary' = IF dry_run THEN diary
                    ELSE [diary EXCEPT ![date_str] = entry.text]
        /\ knowledge' = IF updates
                        THEN save_update_persistent_files(entry, date_str, knowledge)
                        ELSE knowledge
        /\ updateRuns' = IF updates
                         THEN Bump(updateRuns, <<"save", e>>) ELSE updateRuns
        /\ daily' = IF dry_run THEN daily
                    ELSE [daily EXCEPT
                            ![date_str] = save_append_to_daily_memory(entry, date_str,
                                                                      config_json, @)]
        /\ appendCalls' = IF ~dry_run /\ Integrates(config_json)
                          THEN Bump(appendCalls, <<"save", date_str>>) ELSE appendCalls

\* generate.py main, from "if content:" on (lines 546-562), for the content
\* the AI or the interactive fallback produced.
GenerateMain(e, dry_run, no_persistent) ==
    LET entry == Entries[e].entry
        date_str == Entries[e].date
        updates == ~dry_run /\ ~no_persistent
    IN  /\ Step
        /\ diary' = IF dry_run THEN diary
                    ELSE [diary EXCEPT ![date_str] = entry.text]
        /\ daily' = IF dry_run THEN daily
                    ELSE [daily EXCEPT
                            ![date_str] = generate_append_to_daily_memory(entry,
                                                  date_str, config_json, @, dry_run)]
        /\ appendCalls' = IF ~dry_run /\ Integrates(config_json)
                          THEN Bump(appendCalls, <<"generate", date_str>>) ELSE appendCalls
        /\ knowledge' = IF updates
                        THEN generate_update_persistent_files(entry, date_str, knowledge)
                        ELSE knowledge
        /\ updateRuns' = IF updates
                         THEN Bump(updateRuns, <<"generate", e>>) ELSE updateRuns

Next ==
    \/ \E e \in EntryIds : SaveUpdatePersistentFiles(e)
    \/ \E e \in EntryIds : GenerateUpdatePersistentFiles(e)
    \/ \E e \in EntryIds : SaveAppendToDailyMemory(e)
    \/ \E e \in EntryIds, dry_run \in BOOLEAN : GenerateAppendToDailyMemory(e, dry_run)
    \/ \E e \in EntryIds, date_given, dry_run, no_persistent \in BOOLEAN :
          SaveMain(e, date_given, dry_run, no_persistent)
    \/ \E e \in EntryIds, dry_run, no_persistent \in BOOLEAN :
          GenerateMain(e, dry_run, no_persistent)

Spec == Init /\ [][Next]_vars

----------------------------------------------------------------------------
(* One run of a command line, step by step: generate.py main with the      *)
(* generation call and its fallback, save.py main, and the write of the    *)
(* diary entry as the open() and the write() it is made of.                *)

\* Answers with blanks around them, and a title that holds the text of a
\* section heading.
PaddedDay ==
    [FullDay EXCEPT !.summary = Chars(" Shipped the release. "),
                    !.quotes = Chars("  Ship it, then sleep.  ")]
HeadingDay == [FullDay EXCEPT !.title = Chars("Notes on ## Summary")]

\* A document written by hand in save.py's spelling: the quote section is
\* left empty, with the next heading on the line after its own.
TerseDay ==
    [NoAnswers EXCEPT !.title = Chars("Quiet Day"),
                      !.curiosity = Chars("Why do caches lie?")]
TerseDocument ==
    Chars("# ") \o Date1 \o Chars(" ") \o SaveDash \o Chars(" Quiet Day")
    \o Chars("\n\n## Quote of the Day ") \o SaveGlyph.quotes
    \o Chars("\n## Things I'm Curious About ") \o SaveGlyph.curiosity
    \o Chars("\nWhy do caches lie?\n")

\* The documents a run can hold: what interactive_mode builds from a set of
\* answers (1-5), what the model returns when asked for generate.py's
\* layout (1), what is piped into save.py (1, 6, 7, 8).
Drafts ==
    << Written("generate", Date1, FullDay),
       Written("generate", Date1, SparseDay),
       Written("generate", Date1, NoAnswers),
       Written("generate", Date1, PaddedDay),
       Written("generate", Date1, HeadingDay),
       Written("save", Date1, FullDay),
       Written("save", Date1, SparseDay),
       [dialect |-> "save", date |-> Date1, answers |-> TerseDay,
        entry |-> Read(TerseDocument)] >>

InteractiveDrafts == {1, 2, 3, 4, 5}
AiDraft == 1
StdinDrafts == {1, 6, 7, 8}

\* The values of content: None, an empty or blank str, a document.
NoneContent == [kind |-> "None", id |-> 0]
EmptyContent == [kind |-> "empty", id |-> 0]
Document(kind, id) == [kind |-> kind, id |-> id]

\* not content
Falsy(c) == c.kind \in {"None", "empty"}

\* The entry stored for the date by an earlier run.
StoredEntry ==
    Chars("# ") \o Date1 \o Chars(" ") \o GenDash
    \o Chars(" First Draft\n\n## Summary\nAn earlier version.\n")

\* argparse: the options of the run (the date is given with --date).
CommandLines ==
    {[script |-> "generate", interactive |-> i, dry_run |-> d, no_persistent |-> n] :
        i \in BOOLEAN, d \in BOOLEAN, n \in BOOLEAN}
    \cup {[script |-> "save", interactive |-> FALSE, dry_run |-> d, no_persistent |-> n] :
        d \in BOOLEAN, n \in BOOLEAN}

\* What the run finds: the anthropic package importable, the anthropic
\* command on the PATH, a raw log for the date and for recent days, and
\* the entry file of the date.
Environments(script) ==
    IF script = "generate"
    THEN {[sdk |-> s, cli |-> c, today_log |-> t, recent |-> r, stored |-> f] :
            s \in BOOLEAN, c \in BOOLEAN, t \in BOOLEAN, r \in BOOLEAN,
            f \in {NoFile, StoredEntry}}
    ELSE {[sdk |-> FALSE, cli |-> FALSE, today_log |-> FALSE, recent |-> FALSE,
           stored |-> f] : f \in {NoFile, StoredEntry}}

InitMain ==
    /\ args \in CommandLines
    /\ env \in Environments(args.script)
    /\ pc = "main"
    /\ main_content = NoneContent
    /\ failure = "none"
    /\ knowledge = [c \in Categories |-> NoFile]
    /\ daily = [d \in Dates |-> NoFile]
    /\ diary = [d \in Dates |-> IF d = Date1 THEN env.stored ELSE NoFile]
    /\ config_json \in {[enabled |-> TRUE, append_to_daily |-> TRUE, format |-> "summary"],
                        [enabled |-> FALSE, append_to_daily |-> TRUE, format |-> "summary"]}
    /\ updateRuns = << >>
    /\ appendCalls = << >>
    /\ ops = 0
    /\ doc = <<>>
    /\ extracted = NoCall
    /\ ExtractIdle
    /\ CollectIdle
    /\ RaceIdle
    /\ ArchiveIdle

MainFrame == UNCHANGED <<args, env, config_json, updateRuns, appendCalls, ops,
                         extractVars, parseVars, collectVars, raceVars, archiveVars>>

\* generate.py 537-538: --interactive.
RunInteractive(a) ==
    /\ pc = "main"
    /\ args.script = "generate"
    /\ args.interactive
    /\ main_content' = Document("interactive", a)
    /\ pc' = "have_content"
    /\ MainFrame
    /\ UNCHANGED <<failure, knowledge, daily, diary>>

\* generate.py 540, 169-175: generate_ai_diary up to the API call; without
\* any session data it returns None.
GatherContext ==
    /\ pc = "main"
    /\ args.script = "generate"
    /\ ~args.interactive
    /\ IF ~env.today_log /\ ~env.recent
       THEN /\ pc' = "check_content"
            /\ failure' = "no_session_data"
       ELSE /\ pc' = "import_anthropic"
            /\ failure' = failure
    /\ MainFrame
    /\ UNCHANGED <<main_content, knowledge, daily, diary>>

\* generate.py 125-127, 142: import anthropic, or ImportError.
ImportAnthropic ==
    /\ pc = "import_anthropic"
    /\ pc' = IF env.sdk THEN "messages_create" ELSE "subprocess_run"
    /\ MainFrame
    /\ UNCHANGED <<main_content, failure, knowledge, daily, diary>>

\* generate.py 129-140: the SDK call returns the text, or raises one of the
\* SDK's errors (API status, authentication, connection), which is no
\* ImportError and so leaves call_claude_api, generate_ai_diary and main.
MessagesCreate(result) ==
    /\ pc = "messages_create"
    /\ \/ /\ result = "text"
          /\ main_content' = Document("ai", AiDraft)
          /\ pc' = "check_content"
          /\ failure' = failure
       \/ /\ result = "APIError"
          /\ main_content' = main_content
          /\ pc' = "traceback"
          /\ failure' = "api_error"
    /\ MainFrame
    /\ UNCHANGED <<knowledge, daily, diary>>

\* generate.py 144-162: the anthropic command: not found, a non-zero exit,
\* or its stdout.
SubprocessRun(result) ==
    /\ pc = "subprocess_run"
    /\ IF env.cli THEN result \in {"stdout", "empty_stdout", "nonzero"}
       ELSE result = "FileNotFoundError"
    /\ main_content' = CASE result = "stdout" -> Document("ai", AiDraft)
                         [] result = "empty_stdout" -> EmptyContent
                         [] OTHER -> NoneContent
    /\ failure' = CASE result = "nonzero" -> "cli_error"
                    [] result = "FileNotFoundError" -> "cli_not_installed"
                    [] OTHER -> failure
    /\ pc' = "check_content"
    /\ MainFrame
    /\ UNCHANGED <<knowledge, daily, diary>>

\* generate.py 542-544: without content, interactive_mode.
FallBack(a) ==
    /\ pc = "check_content"
    /\ main_content' = IF Falsy(main_content) THEN Document("interactive", a)
                       ELSE main_content
    /\ pc' = "have_content"
    /\ MainFrame
    /\ UNCHANGED <<failure, knowledge, daily, diary>>

\* save.py 219-228: the entry read from stdin or --file; a blank one ends
\* the run with exit status 1.
ReadEntry(blank, a) ==
    /\ pc = "main"
    /\ args.script = "save"
    /\ main_content' = IF blank THEN EmptyContent ELSE Document("stdin", a)
    /\ pc' = IF blank THEN "exit_1" ELSE "have_content"
    /\ MainFrame
    /\ UNCHANGED <<failure, knowledge, daily, diary>>

\* generate.py 548, 310-315 and 550: --dry-run prints the entry; saved_file
\* is None and nothing else is done.
GenerateDryRun ==
    /\ pc = "have_content"
    /\ args.script = "generate"
    /\ args.dry_run
    /\ pc' = "done"
    /\ MainFrame
    /\ UNCHANGED <<main_content, failure, knowledge, daily, diary>>

\* save.py 249-256: --dry-run calls update_persistent_files to list what
\* it would update, then exits.
SaveDryRun ==
    /\ pc = "have_content"
    /\ args.script = "save"
    /\ args.dry_run
    /\ knowledge' = IF ~args.no_persistent
                    THEN save_update_persistent_files(Drafts[main_content.id].entry,
                                                      Date1, knowledge)
                    ELSE knowledge
    /\ pc' = "done"
    /\ MainFrame
    /\ UNCHANGED <<main_content, failure, daily, diary>>

\* open(output_file, 'w') (save.py 260, generate.py 317): the file is
\* created or cut to length 0; or the open fails and the file is as it was.
OpenEntry(ok) ==
    /\ pc = "have_content"
    /\ ~args.dry_run
    /\ diary' = IF ok THEN [diary EXCEPT ![Date1] = <<>>] ELSE diary
    /\ pc' = IF ok THEN "writing" ELSE "io_traceback"
    /\ MainFrame
    /\ UNCHANGED <<main_content, failure, knowledge, daily>>

\* What of the text has reached the file when the write and the close are
\* over: all of it, or, when they fail, nothing or a part.
WrittenLen(text, part) ==
    CASE part = "all" -> Len(text)
      [] part = "half" -> Len(text) \div 2
      [] part = "nothing" -> 0

\* f.write(content) and the close (save.py 261, generate.py 318).
WriteEntry(part) ==
    /\ pc = "writing"
    /\ LET text == Drafts[main_content.id].entry.text
       IN  diary' = [diary EXCEPT ![Date1] = SubSeq(text, 1, WrittenLen(text, part))]
    /\ pc' = IF part = "all" THEN "saved" ELSE "io_traceback"
    /\ MainFrame
    /\ UNCHANGED <<main_content, failure, knowledge, daily>>

\* generate.py 550-556: the chronicle, then the knowledge files.
GenerateMerge ==
    LET entry == Drafts[main_content.id].entry
    IN  /\ pc = "saved"
        /\ args.script = "generate"
        /\ daily' = [daily EXCEPT
                       ![Date1] = generate_append_to_daily_memory(entry, Date1,
                                                                  config_json, @, FALSE)]
        /\ knowledge' = IF ~args.no_persistent
                        THEN generate_update_persistent_files(entry, Date1, knowledge)
                        ELSE knowledge
        /\ pc' = "done"
        /\ MainFrame
        /\ UNCHANGED <<main_content, failure, diary>>

\* save.py 265-273: the knowledge files, then the chronicle.
SaveMerge ==
    LET entry == Drafts[main_content.id].entry
    IN  /\ pc = "saved"
        /\ args.script = "save"
        /\ knowledge' = IF ~args.no_persistent
                        THEN save_update_persistent_files(entry, Date1, knowledge)
                        ELSE knowledge
        /\ daily' = [daily EXCEPT
                       ![Date1] = save_append_to_daily_memory(entry, Date1,
                                                              config_json, @)]
        /\ pc' = "done"
        /\ MainFrame
        /\ UNCHANGED <<main_content, failure, diary>>

NextMain ==
    \/ \E a \in InteractiveDrafts : RunInteractive(a)
    \/ GatherContext
    \/ ImportAnthropic
    \/ \E result \in {"text", "APIError"} : MessagesCreate(result)
    \/ \E result \in {"stdout", "empty_stdout", "nonzero", "FileNotFoundError"} :
          SubprocessRun(result)
    \/ \E a \in InteractiveDrafts : FallBack(a)
    \/ \E blank \in BOOLEAN, a \in StdinDrafts : ReadEntry(blank, a)
    \/ GenerateDryRun
    \/ SaveDryRun
    \/ \E ok \in BOOLEAN : OpenEntry(ok)
    \/ \E part \in {"all", "half", "nothing"} : WriteEntry(part)
    \/ GenerateMerge
    \/ SaveMerge

SpecMain == InitMain /\ [][NextMain]_vars

----------------------------------------------------------------------------
(* collect.py: the context gathered for a diary entry. Session files and   *)
(* knowledge files are held as TLA+ strings, as the session parser holds   *)
(* them. Nothing here writes: the calls only add to collected.             *)

\* Python's None beside a str.
NoneText == [is_none |-> TRUE, text |-> ""]
Text(s) == [is_none |-> FALSE, text |-> s]

\* `if x:` on a value that is None or a str, as `if x is not None:` would be.
TruthyText_NotNone(r) == ~r.is_none

\* `if x:` on a value that is None or a str.
TruthyText(r) == ~r.is_none /\ r.text # ""

\* collect.py:143-144: the parts joined, or the mark of no content; line
\* 141 when the loop was left by an exception.
ParseReturn(r) ==
    IF r.raised THEN "[Error reading session: " \o r.msg \o "]"
    ELSE IF JoinParts(r.parts) # "" THEN JoinParts(r.parts) ELSE NoContent

\* collect.py:74-141: the loop of parse_jsonl_session from line i on, the
\* steps of NextParse run in one go. r is what line i gives.
RECURSIVE ParseFrom(_, _, _, _)
ParseLine(session_file, i, parts, budget, r) ==
    IF r.raised THEN r
    ELSE IF TotalLen(parts \o r.parts) > budget
         THEN Ok(Append(parts \o r.parts, TruncationMarker))
         ELSE ParseFrom(session_file, i + 1, parts \o r.parts, budget)
ParseFrom(session_file, i, parts, budget) ==
    IF i > Len(session_file) THEN Ok(parts)
    ELSE IF Unreadable(session_file[i].json) THEN Raise(session_file[i].json.v)
    ELSE IF Skipped(session_file[i].json)
         THEN ParseFrom(session_file, i + 1, parts, budget)
         ELSE ParseLine(session_file, i, parts, budget, EntryParts(session_file[i].json))

\* collect.py:66-144
parse_jsonl_session(session_file, budget) ==
    ParseReturn(ParseFrom(session_file, 1, << >>, budget))

\* "\n".join(parts)
RECURSIVE JoinLines(_)
JoinLines(parts) ==
    IF parts = << >> THEN ""
    ELSE IF Len(parts) = 1 THEN parts[1]
    ELSE parts[1] \o "\n" \o JoinLines(Tail(parts))

\* agents_dir.glob("*.jsonl"): the files of the directory, each once, in
\* whatever order the file system gives them.
Listings(dir) ==
    {l \in [1..Cardinality(dir.files) -> dir.files] :
        \A i, j \in DOMAIN l : l[i] = l[j] => i = j}

\* sessions.append(...) `if content:`, collect.py:168-169 and 193-196.
AppendIf(keep, block, rest) == IF keep THEN <<block>> \o rest ELSE rest

\* "\n\n".join(sessions), or None for no sessions (collect.py:171-174, 198).
JoinedOrNone(sessions) ==
    IF sessions = << >> THEN NoneText ELSE Text(JoinParts(sessions))

\* collect.py:168-169 for one file of the date, content being what the
\* parser made of it.
SessionLogBlock(session_file, content, rest) ==
    AppendIf(content # "", "### Session: " \o session_file.stem \o "\n" \o content, rest)

\* collect.py:157-169: the loop over the listing, from its first file on.
RECURSIVE SessionLogBlocks(_, _, _)
SessionLogBlocks(listing, date_str, budget) ==
    IF listing = << >> THEN << >>
    ELSE IF Head(listing).mtime.date = date_str
         THEN SessionLogBlock(Head(listing),
                              parse_jsonl_session(Head(listing).lines, budget \div 3),
                              SessionLogBlocks(Tail(listing), date_str, budget))
         ELSE SessionLogBlocks(Tail(listing), date_str, budget)

\* collect.py:147-174
load_session_log(date_str, dir, listing, budget) ==
    IF ~dir.exists THEN NoneText
    ELSE JoinedOrNone(SessionLogBlocks(listing, date_str, budget))

\* collect.py:193-196 for one file of the window.
RecentBlock(session_file, content, rest) ==
    AppendIf(content # "",
             "## Session: " \o session_file.stem \o " (" \o session_file.mtime.date
                 \o ")\n" \o content,
             rest)

\* collect.py:187-196; a file's age is now - mtime in days.
RECURSIVE RecentBlocks(_, _, _)
RecentBlocks(listing, days, max_per_session) ==
    IF listing = << >> THEN << >>
    ELSE IF Head(listing).mtime.age <= days
         THEN RecentBlock(Head(listing),
                          parse_jsonl_session(Head(listing).lines, max_per_session),
                          RecentBlocks(Tail(listing), days, max_per_session))
         ELSE RecentBlocks(Tail(listing), days, max_per_session)

\* collect.py:177-198
load_recent_sessions(dir, listing, days, max_per_session) ==
    IF ~dir.exists THEN NoneText
    ELSE JoinedOrNone(RecentBlocks(listing, days, max_per_session))

PersistentMarker == "\n[... truncated ...]"

\* collect.py:201-222 and generate.py:99-120: the dict, with None for a key
\* it does not hold.
load_persistent_files(dir, cap) ==
    [c \in Categories |->
        IF ~dir[c].exists THEN NoneText
        ELSE IF Len(dir[c].text) > cap
             THEN Text(SubSeq(dir[c].text, 1, cap) \o PersistentMarker)
             ELSE Text(dir[c].text)]

SessionLogMaxChars == 15000       \* collect.py:147
MaxPerSession == 5000             \* collect.py:177
PersistentMaxChars == 2000        \* collect.py:201
GeneratePersistentMaxChars == 2000  \* generate.py:116
ContextDays == 2                  \* collect.py:228

ContextHeading ==
    [quotes |-> "## Quote Hall of Fame (Existing)",
     curiosity |-> "## Curiosity Backlog (Existing)",
     decisions |-> "## Decision Log (Existing)",
     relationship |-> "## Relationship Notes (Existing)"]
RecentHeading == "## Recent Session Context"
TodayHeading(date_str) == "## Today's Sessions (" \o date_str \o ")"
NoSessions == "*No sessions recorded for this date*"

ConfigGet(config, key, default) ==
    IF key \in DOMAIN config THEN config[key] ELSE default

\* collect.py:246-269: the three parts of a section that is rendered.
SectionParts(heading, source) ==
    IF TruthyText(source) THEN <<heading, source.text, "">> ELSE << >>

\* collect.py:237-244: the section of the date is always rendered.
TodayParts(date_str, today_log) ==
    <<TodayHeading(date_str),
      IF TruthyText(today_log) THEN today_log.text ELSE NoSessions,
      "">>

\* collect.py:231-271: output_parts from what the three loaders returned.
BuildParts(date_str, config, today_log, recent_sessions, persistent) ==
    << "# Context for Diary Entry: " \o date_str \o "\n",
       "## Configuration",
       "Privacy Level: " \o ConfigGet(config, "privacy_level", "private"),
       "Template: " \o ConfigGet(config, "template", "daily"),
       "" >>
    \o TodayParts(date_str, today_log)
    \o SectionParts(RecentHeading, recent_sessions)
    \o SectionParts(ContextHeading.quotes, persistent.quotes)
    \o SectionParts(ContextHeading.curiosity, persistent.curiosity)
    \o SectionParts(ContextHeading.decisions, persistent.decisions)
    \o SectionParts(ContextHeading.relationship, persistent.relationship)

\* collect.py:225-271: output_parts
output_parts(date_str, dir, listing, files, config) ==
    BuildParts(date_str, config,
               load_session_log(date_str, dir, listing, SessionLogMaxChars),
               load_recent_sessions(dir, listing, ContextDays, MaxPerSession),
               load_persistent_files(files, PersistentMaxChars))

\* collect.py:273
collect_context(date_str, dir, listing, files, config) ==
    JoinLines(output_parts(date_str, dir, listing, files, config))

\* --- the workspaces the calls are made in ---

MaxCalls == 2

Day1 == "2024-05-01"
Day2 == "2024-05-02"
Days == {Day1, Day2}

\* Modified today, yesterday, five days ago.
Now == [date |-> Day2, age |-> 0]
Yesterday == [date |-> Day1, age |-> 1]
LastWeek == [date |-> "2024-04-27", age |-> 5]

SessionFile(stem, mtime, contents) ==
    [stem |-> stem, mtime |-> mtime, lines |-> contents]

\* One user message of 20 characters: 26 with its label.
LongMessage(ch) == <<UserLine(Repeat(ch, 20))>>

NoDir == [exists |-> FALSE, files |-> {}]
Dir(files) == [exists |-> TRUE, files |-> files]

Directories ==
    [none |-> NoDir,
     empty |-> Dir({}),
     one |-> Dir({SessionFile("alpha", Now, <<UserLine("Fix the build."), AssistantLine("Done.")>>)}),
     blank |-> Dir({SessionFile("alpha", Now, << >>)}),
     two |-> Dir({SessionFile("alpha", Now, <<UserLine("Fix the build.")>>),
                  SessionFile("beta", Now, <<AssistantLine("Done.")>>)}),
     mixed |-> Dir({SessionFile("alpha", Now, <<UserLine("Fix the build.")>>),
                    SessionFile("beta", Yesterday, <<ToolErrorLine("boom")>>),
                    SessionFile("gamma", LastWeek, <<UserLine("Thanks.")>>)}),
     four |-> Dir({SessionFile("alpha", Now, LongMessage("a")),
                   SessionFile("beta", Now, LongMessage("b")),
                   SessionFile("gamma", Now, LongMessage("c")),
                   SessionFile("delta", Now, LongMessage("d"))})]

Absent == [exists |-> FALSE, text |-> ""]
Holding(text) == [exists |-> TRUE, text |-> text]

\* 2028 characters
LongKnowledge == Repeat(Repeat(Repeat("x", 13), 13), 12)

DiaryDirs ==
    [none |-> [c \in Categories |-> Absent],
     long |-> [quotes |-> Holding("# Quote Hall of Fame\n\n### 2024-04-30\n\"Ship it.\"\n"),
               curiosity |-> Absent,
               decisions |-> Holding(LongKnowledge),
               relationship |-> Absent],
     void |-> [quotes |-> Holding(""),
               curiosity |-> Holding("\n"),
               decisions |-> Absent,
               relationship |-> Holding("# Relationship Notes\n")]]

\* The workspaces: which sessions directory lies beside which memory/diary.
Workspaces ==
    {<<"none", "none">>, <<"none", "long">>, <<"empty", "void">>,
     <<"one", "none">>, <<"one", "long">>, <<"one", "void">>,
     <<"blank", "none">>, <<"blank", "long">>,
     <<"two", "long">>, <<"two", "void">>,
     <<"mixed", "none">>, <<"mixed", "long">>, <<"mixed", "void">>,
     <<"four", "none">>}

SessionBudgets == {30, 90, SessionLogMaxChars}
PersistentCaps == {20, PersistentMaxChars}
CollectConfigs ==
    {[privacy_level |-> "public", template |-> "daily"], [privacy_level |-> "private"]}

InitCollect ==
    /\ ExtractIdle /\ ParseIdle /\ MergeIdle /\ MainIdle
    /\ RaceIdle /\ ArchiveIdle
    /\ \E w \in Workspaces :
          /\ agents_dir = Directories[w[1]]
          /\ diary_dir = DiaryDirs[w[2]]
    /\ collected = << >>

\* What a call leaves in collected: its arguments and what it returned.
Call(op, date_str, cap, ret) ==
    [op |-> op, date_str |-> date_str, cap |-> cap, ret |-> ret]

\* The calls are bounded in number.
CanCall == Len(collected) < MaxCalls

\* A call of collect_context: the parts and the text joined from them.
ContextCall(date_str, parts) ==
    Call("collect_context", date_str, 0, [parts |-> parts, text |-> JoinLines(parts)])

Record(call) ==
    /\ CanCall
    /\ collected' = Append(collected, call)
    /\ UNCHANGED <<agents_dir, diary_dir, extractVars, parseVars, mergeVars, mainVars,
                   raceVars, archiveVars>>

CallLoadSessionLog(date_str, listing, budget) ==
    Record(Call("load_session_log", date_str, budget,
                load_session_log(date_str, agents_dir, listing, budget)))

CallLoadRecentSessions(listing, days, max_per_session) ==
    Record(Call("load_recent_sessions", "", max_per_session,
                load_recent_sessions(agents_dir, listing, days, max_per_session)))

CallLoadPersistentFiles(cap) ==
    Record(Call("load_persistent_files", "", cap,
                load_persistent_files(diary_dir, cap)))

\* generate.py:99-120
CallGenerateLoadPersistentFiles ==
    Record(Call("generate.load_persistent_files", "", GeneratePersistentMaxChars,
                load_persistent_files(diary_dir, GeneratePersistentMaxChars)))

CallCollectContext(date_str, listing, config) ==
    Record(ContextCall(date_str,
                       output_parts(date_str, agents_dir, listing, diary_dir, config)))

NextCollect ==
    \/ /\ CanCall
       /\ \E d \in Days, l \in Listings(agents_dir), b \in SessionBudgets :
              CallLoadSessionLog(d, l, b)
    \/ /\ CanCall
       /\ \E l \in Listings(agents_dir), b \in {30, MaxPerSession} :
              CallLoadRecentSessions(l, ContextDays, b)
    \/ \E cap \in PersistentCaps : CallLoadPersistentFiles(cap)
    \/ CallGenerateLoadPersistentFiles
    \/ /\ CanCall
       /\ \E d \in Days, l \in Listings(agents_dir), config \in CollectConfigs :
              CallCollectContext(d, l, config)

SpecCollect == InitCollect /\ [][NextCollect]_vars

----------------------------------------------------------------------------
(* Two invocations of append_to_daily_memory for one date, each a process  *)
(* of its own.  The function holds no lock: its calls on the file system   *)
(* (exists, read_text, open and write) are the steps, and nothing orders   *)
(* the steps of one invocation against those of the other.                 *)

Invocations == {1, 2}

\* An invocation: the script it runs, where it is, its locals content and
\* existing_content, and whether it wrote to the file (save.py returns
\* True then, generate.py prints that it added the chronicle).
Invocation(script, at, chronicle, existing_content, wrote) ==
    [script |-> script, at |-> at, content |-> chronicle,
     existing_content |-> existing_content, wrote |-> wrote]

\* The heading a script looks for and writes.
HeadingOf(script) ==
    IF script = "save" THEN SaveChronicleHeading ELSE GenChronicleHeading

\* The block the invocation builds before it looks at the file
\* (save.py 171-186, generate.py 335-350), for the day's entry in the
\* script's own dialect.
chronicle_content(script, config) ==
    IF script = "save"
    THEN ChronicleContent(SaveChronicleHeading, config.format, Entries[1].entry.text,
                          Date1, Entries[1].entry.save_summary, Entries[1].entry.save_title)
    ELSE ChronicleContent(GenChronicleHeading, config.format, Entries[3].entry.text,
                          Date1, Entries[3].entry.gen_summary, Entries[3].entry.gen_title)

InitRace ==
    /\ invocations \in [Invocations ->
                          {Invocation(script, "called", << >>, NoFile, FALSE) :
                              script \in Scripts}]
    /\ overlapped = FALSE
    /\ knowledge = [c \in Categories |-> NoFile]
    /\ daily \in {[d \in Dates |-> NoFile], [d \in Dates |-> RawLog(d)]}
    /\ diary = [d \in Dates |-> NoFile]
    /\ updateRuns = << >>
    /\ appendCalls = << >>
    /\ config_json \in Configs
    /\ ops = 0
    /\ ExtractIdle /\ ParseIdle /\ MainIdle /\ CollectIdle /\ ArchiveIdle

\* Whether an invocation is between its first call on the file system and
\* its return.
UnderWay(p) == invocations[p].at \notin {"called", "returned"}

\* A step of invocation p that leaves it as the record next.
RaceStep(p, next) ==
    /\ invocations' = [invocations EXCEPT ![p] = next]
    /\ overlapped' = (overlapped \/ \E q \in Invocations \ {p} : UnderWay(q))
    /\ UNCHANGED <<knowledge, diary, updateRuns, appendCalls, config_json, ops,
                   extractVars, parseVars, mainVars, collectVars, archiveVars>>

\* Lines 163-192 (save.py), 326-362 (generate.py): the configuration
\* checks, the block built, and daily_memory_file.exists().
CheckExists(p) ==
    LET self == invocations[p]
        built == chronicle_content(self.script, config_json)
    IN  /\ self.at = "called"
        /\ RaceStep(p, IF ~Integrates(config_json)
                       THEN [self EXCEPT !.at = "returned"]
                       ELSE IF daily[Date1] # NoFile
                       THEN [self EXCEPT !.at = "read", !.content = built]
                       ELSE [self EXCEPT !.at = "create", !.content = built])
        /\ UNCHANGED daily

\* Lines 193-195 (save.py), 363-365 (generate.py): read_text() and the
\* search for the heading in what was read.
ReadText(p) ==
    LET self == invocations[p]
    IN  /\ self.at = "read"
        /\ RaceStep(p, IF Contains(daily[Date1], HeadingOf(self.script))
                       THEN [self EXCEPT !.at = "returned",
                                         !.existing_content = daily[Date1]]
                       ELSE [self EXCEPT !.at = "append",
                                         !.existing_content = daily[Date1]])
        /\ UNCHANGED daily

\* Lines 197-198 (save.py), 367-368 (generate.py): open(..., 'a') and write.
AppendChronicle(p) ==
    LET self == invocations[p]
    IN  /\ self.at = "append"
        /\ daily' = [daily EXCEPT ![Date1] = AppendTo(@, self.content)]
        /\ RaceStep(p, [self EXCEPT !.at = "returned", !.wrote = TRUE])

\* Lines 200-203 (save.py), 370-373 (generate.py): open(..., 'w') and
\* write of the header and the block.
CreateDaily(p) ==
    LET self == invocations[p]
    IN  /\ self.at = "create"
        /\ daily' = [daily EXCEPT ![Date1] = DailyHeader(Date1) \o self.content]
        /\ RaceStep(p, [self EXCEPT !.at = "returned", !.wrote = TRUE])

NextRace ==
    \/ \E p \in Invocations : CheckExists(p)
    \/ \E p \in Invocations : ReadText(p)
    \/ \E p \in Invocations : AppendChronicle(p)
    \/ \E p \in Invocations : CreateDaily(p)

SpecRace == InitRace /\ [][NextRace]_vars

----------------------------------------------------------------------------
(* The archiver: scripts/archive.py archive_entry, run between saves of    *)
(* the diary entry of a date, with the wall clock advancing in between.    *)

SecondsPerDay == 86400
MaxArchiveOps == 4

\* The instants at which the clock is read: a midnight, the second after
\* it, and the same two instants a day later.
Instants == {0, 1, SecondsPerDay, SecondsPerDay + 1}

DEFAULT_ARCHIVE_DIARY_PATH == Chars("memory/diary/")
ARCHIVE_SUBDIR == Chars("archive")

\* The decimal digit d as a character, and n % 100 as strftime's two
\* digits.
Digit(d) == SubSeq("0123456789", d + 1, d + 1)
TwoDigits(n) == <<Digit((n % 100) \div 10), Digit(n % 10)>>

\* datetime.now().strftime("%H%M%S") (line 57), for a clock counting the
\* seconds from a midnight.
timestamp(now) ==
    LET second_of_day == now % SecondsPerDay
    IN  TwoDigits(second_of_day \div 3600)
        \o TwoDigits((second_of_day % 3600) \div 60)
        \o TwoDigits(second_of_day % 60)

\* Line 58: f"{date_str}-{timestamp}.md"
archive_name(date_str, now) == date_str \o Chars("-") \o timestamp(now) \o Chars(".md")

\* The files of a directory after a file was moved to name in it: a file
\* of that name is replaced (shutil.move renames onto an existing file).
MoveInto(files, name, text) ==
    {f \in files : f.name # name} \cup {[name |-> name, text |-> text]}

\* The value archive_entry returns: the flag and the message.
Report(was_archived, message) == [archived |-> was_archived, message |-> message]

\* The documents save writes: two versions of the entry of a date.
Versions(date_str) ==
    { Chars("# ") \o date_str \o Chars("\n\n## Summary\n") \o Chars(body) :
         body \in {"Draft.", "Rewritten."} }

InitArchive ==
    /\ archive_dir = NoDir
    /\ clock = 0
    /\ moved = << >>
    /\ report = Report(FALSE, << >>)
    /\ knowledge = [c \in Categories |-> NoFile]
    /\ daily = [d \in Dates |-> NoFile]
    /\ diary \in {[d \in Dates |-> NoFile]}
                 \cup {[d \in Dates |-> IF d = Date1 THEN v ELSE NoFile] :
                          v \in Versions(Date1)}
    /\ updateRuns = << >>
    /\ appendCalls = << >>
    /\ config_json = << >>
    /\ ops = 0
    /\ ExtractIdle /\ ParseIdle /\ MainIdle /\ CollectIdle /\ RaceIdle

ArchiveFrame ==
    UNCHANGED <<knowledge, daily, updateRuns, appendCalls, config_json,
                extractVars, parseVars, mainVars, collectVars, raceVars>>

\* save.py save_entry (lines 91-98; main, lines 258-261): the entry file
\* of the date opened in mode 'w' and written.
SaveEntry(date_str, entry_content) ==
    /\ ops < MaxArchiveOps
    /\ ops' = ops + 1
    /\ diary' = [diary EXCEPT ![date_str] = entry_content]
    /\ UNCHANGED <<archive_dir, clock, moved, report>>
    /\ ArchiveFrame

\* archive_entry(date_str), lines 39-64, with the default diary path.
archive_entry(date_str) ==
    LET name == archive_name(date_str, clock)
        archive_path == DEFAULT_ARCHIVE_DIARY_PATH \o ARCHIVE_SUBDIR \o Chars("/") \o name
    IN  /\ ops < MaxArchiveOps
        /\ ops' = ops + 1
        /\ IF diary[date_str] = NoFile
           THEN /\ report' = Report(FALSE, Chars("No existing entry for ") \o date_str)
                /\ UNCHANGED <<diary, archive_dir, moved>>
           ELSE /\ archive_dir' = Dir(MoveInto(archive_dir.files, name, diary[date_str]))
                /\ diary' = [diary EXCEPT ![date_str] = NoFile]
                /\ moved' = Append(moved, [date |-> date_str, name |-> name,
                                           text |-> diary[date_str]])
                /\ report' = Report(TRUE, Chars("Archived ") \o date_str \o Chars(".md ")
                                          \o <<"U+2192">> \o Chars(" ") \o archive_path)
        /\ UNCHANGED clock
        /\ ArchiveFrame

\* Time passes, until a later instant.
Tick(later) ==
    /\ later > clock
    /\ clock' = later
    /\ UNCHANGED <<diary, ops, archive_dir, moved, report>>
    /\ ArchiveFrame

NextArchive ==
    \/ \E d \in Dates : \E v \in Versions(d) : SaveEntry(d, v)
    \/ \E d \in Dates : archive_entry(d)
    \/ \E later \in Instants : Tick(later)

SpecArchive == InitArchive /\ [][NextArchive]_vars

----------------------------------------------------------------------------
(* What the extraction claims speak of: headings read line by line.        *)

UpperCase == Chars("ABCDEFGHIJKLMNOPQRSTUVWXYZ")
LowerCase == Chars("abcdefghijklmnopqrstuvwxyz")

ToLower(ch) ==
    IF \E i \in 1..26 : UpperCase[i] = ch
    THEN LowerCase[CHOOSE i \in 1..26 : UpperCase[i] = ch]
    ELSE ch

LowerText(s) == [i \in 1..Len(s) |-> ToLower(s[i])]

IsWordChar(ch) == \E i \in 1..26 : ch = UpperCase[i] \/ ch = LowerCase[i]

\* The level of a markdown heading line (0: not a heading).
HeadingLevel(line) ==
    IF StartsWith(line, Chars("# ")) THEN 1
    ELSE IF StartsWith(line, Chars("## ")) THEN 2
    ELSE IF StartsWith(line, Chars("### ")) THEN 3
    ELSE 0

\* The lines from after line i up to the next heading of level 1 or 2 (or
\* the end), joined and trimmed.
BodyAfter(lines, i) ==
    LET ends == {j \in (i + 1)..Len(lines) : HeadingLevel(lines[j]) \in {1, 2}}
        e == IF ends = {} THEN Len(lines) + 1 ELSE Min(ends)
    IN  Strip(Join(SubSeq(lines, i + 1, e - 1), Chars("\n")))

\* The body of the section whose heading line is exactly `heading`.
SectionBetween(text, heading) ==
    LET lines == SplitLines(text)
        at == {i \in 1..Len(lines) : lines[i] = heading}
    IN  IF at = {} THEN NotFound ELSE BodyAfter(lines, Min(at))

\* A heading line for `title` up to letter case and a decorative suffix.
IsHeadingFor(line, title) ==
    LET want == Chars("## ") \o title
    IN  /\ Len(line) >= Len(want)
        /\ LowerText(SubSeq(line, 1, Len(want))) = LowerText(want)
        /\ \A i \in (Len(want) + 1)..Len(line) : ~IsWordChar(line[i])

\* The document with every such heading line spelled the way save.py does.
Respelled(text, c) ==
    LET lines == SplitLines(text)
        canon == Chars("## ") \o SectionTitle[c] \o Chars(" ") \o SaveGlyph[c]
    IN  Join([i \in 1..Len(lines) |->
                 IF IsHeadingFor(lines[i], SectionTitle[c]) THEN canon ELSE lines[i]],
             Chars("\n"))

DocLines == SplitLines(doc)

SummaryOps == {"extract_summary", "extract_summary_from_entry"}
TitleOps == {"extract_title", "extract_title_from_entry"}

\* C7 (as claimed): an extraction returns exactly the trimmed text between
\* the section's own level-2 heading line and the next heading line of
\* level 1 or 2, or the end of the document; a level-3 heading inside the
\* section does not end the body.  Stated for the Summary section and for
\* the Quote section under the heading spelling save.py searches for.
C7_BodyBetweenHeadings ==
    /\ ( /\ extracted.op \in SummaryOps
         /\ \E i \in 1..Len(DocLines) : DocLines[i] = Chars("## Summary") )
       => extracted.result = SectionBetween(doc, Chars("## Summary"))
    /\ ( /\ extracted.op = "section_search"
         /\ extracted.cat = "quotes"
         /\ \E i \in 1..Len(DocLines) : DocLines[i] = QuoteLineSave )
       => extracted.result \in {SectionBetween(doc, QuoteLineSave), NotFound}

\* C8 (as claimed): the Quote section is found, with the same body, whether
\* its heading line carries the glyph, another suffix or none, or differs in
\* letter case: the search gives what it gives on the document respelled
\* with the heading save.py looks for.
C8_HeadingTolerant ==
    ( /\ extracted.op = "section_search"
      /\ extracted.cat = "quotes" )
    => extracted.result = SectionSearch(Respelled(doc, "quotes"), SaveHead("quotes"))

\* The document's top-level heading: its first level-1 heading line.
TopHeading(lines) ==
    LET tops == {i \in 1..Len(lines) : HeadingLevel(lines[i]) = 1}
    IN  IF tops = {} THEN <<>> ELSE lines[Min(tops)]

\* C10 (as claimed): title extraction returns T exactly when the top-level
\* heading is '# YYYY-MM-DD <em dash> T', and no result otherwise (never a
\* title from another line).
C10_TitleOfTopHeading ==
    extracted.op \in TitleOps =>
        extracted.result =
            IF TitleLine(TopHeading(DocLines), EmDash)
            THEN Strip(From(TopHeading(DocLines), 13 + Len(EmDash) + 2))
            ELSE NotFound

FirstLineAfterHeading(lines, mark) ==
    LET ok == {j \in 1..Len(lines) :
                  /\ Strip(lines[j]) # <<>>
                  /\ lines[j][1] # "#"
                  /\ \E i \in 1..Len(lines) :
                        i < j /\ j - i <= 4 /\ StartsWith(lines[i], mark)}
    IN  IF ok = {} THEN <<>> ELSE Strip(lines[Min(ok)])

----------------------------------------------------------------------------
(* What the parser claims speak of: the lines a record is rendered to,     *)
(* read off the record the line was written from.                          *)

Rendered(src) ==
    CASE src.kind = "user" -> <<"User: " \o src.text>>
      [] src.kind = "assistant" ->
            <<"Assistant: " \o src.text>> \o
            (IF src.tool = "" THEN <<>>
             ELSE <<"[Tool: " \o src.tool \o "] " \o src.args>>)
      [] src.kind = "tool_result" ->
            <<"[Tool Result]: " \o
              (IF Len(src.text) > 500 THEN SubSeq(src.text, 1, 500) ELSE src.text)>>
      [] src.kind = "tool_error" -> <<"[Tool Error]: " \o src.text>>
      [] OTHER -> <<>>

\* The rendered lines of every well-formed record, in file order.
RECURSIVE RenderedAll(_)
RenderedAll(ls) ==
    IF ls = <<>> THEN <<>> ELSE Rendered(Head(ls).src) \o RenderedAll(Tail(ls))

IsPrefix(a, b) == Len(a) <= Len(b) /\ SubSeq(b, 1, Len(a)) = a

IsErrorLine(text) == StringStartsWith(text, "[Error reading session: ")

\* content_parts without the truncation marker that may end it.
Kept ==
    IF content_parts # <<>> /\ content_parts[Len(content_parts)] = TruncationMarker
    THEN SubSeq(content_parts, 1, Len(content_parts) - 1)
    ELSE content_parts

\* C4 (as claimed): malformed lines are skipped one by one and the rendered
\* lines of every well-formed record before and after them are returned; no
\* malformed line replaces the result by an error.  (Budget large enough
\* for the whole transcript.)
C4_MalformedLinesSkipped ==
    (outcome.st = "returned" /\ max_chars = DefaultMaxChars)
    => outcome.ret = IF RenderedAll(session) = <<>> THEN NoContent
                     ELSE JoinParts(RenderedAll(session))

\* C5 (as claimed): when the rendered transcript exceeds the budget, the
\* result is whole rendered records, in order, totalling at most max_chars
\* characters, followed by exactly one truncation marker.
C5_TruncatedWithinBudget ==
    ( /\ outcome.st = "returned"
      /\ ~IsErrorLine(outcome.ret)
      /\ TotalLen(RenderedAll(session)) > max_chars )
    => /\ content_parts # <<>>
       /\ content_parts[Len(content_parts)] = TruncationMarker
       /\ \A i \in 1..Len(Kept) : Kept[i] # TruncationMarker
       /\ IsPrefix(Kept, RenderedAll(session))
       /\ outcome.ret = JoinParts(content_parts)
       /\ TotalLen(Kept) <= max_chars

ReadRaised == \E i \in 1..pos : Unreadable(session[i].json)

\* C21: parse_jsonl_session always returns, and never the empty string: a
\* call that has not returned can take a step; what it returns is the
\* joined lines when there are any, the mark '[No content extracted]' when
\* no record gave a line, or a line '[Error reading session: ...]'; and
\* when the source cannot be opened or read it returns that line with the
\* message of the error.
C21_TotalNeverEmpty ==
    /\ outcome.st \in {"reading", "loop_done"} => ENABLED NextParse
    /\ outcome.st = "returned" =>
          /\ outcome.ret # ""
          /\ \/ IsErrorLine(outcome.ret)
             \/ content_parts = << >> /\ outcome.ret = NoContent
             \/ content_parts # << >> /\ outcome.ret = JoinParts(content_parts)
          /\ ReadRaised =>
                outcome.ret = "[Error reading session: " \o session[pos].json.v \o "]"

\* C21 witness: the second line of the file could not be decoded, after a
\* record had given a line, and the call returned the error line.
C21_Witness ==
    /\ outcome.st = "returned"
    /\ ReadRaised
    /\ content_parts # << >>
    /\ IsErrorLine(outcome.ret)

----------------------------------------------------------------------------
(* What the merge claims speak of.                                         *)

\* The body of category c in the answers entry e was written from.
Body(e, c) == Strip(Entries[e].answers[c])

\* The update_persistent_files runs, by either script, of the keys in S.
RECURSIVE SumRuns(_)
SumRuns(S) ==
    IF S = {} THEN 0
    ELSE LET key == CHOOSE x \in S : TRUE
         IN  updateRuns[key] + SumRuns(S \ {key})

\* The runs on an entry of the date of e whose section c has the body it
\* has in e.
RunsLike(e, c) ==
    SumRuns({key \in Scripts \X EntryIds :
                /\ Entries[key[2]].date = Entries[e].date
                /\ Body(key[2], c) = Body(e, c)})

\* The chronicle blocks of a daily memory file, in the heading of either
\* script.
ChronicleBlocks(file) ==
    CountOf(file, SaveChronicleHeading) + CountOf(file, GenChronicleHeading)

\* C1 (as claimed): after any number (>= 1) of append_to_daily_memory
\* calls for a date, with memory integration enabled, the date's daily
\* memory file contains exactly one chronicle block.
C1_OneChronicleBlock ==
    \A d \in Dates :
        appendCalls[<<"save", d>>] + appendCalls[<<"generate", d>>] >= 1
        => ChronicleBlocks(daily[d]) = 1

\* C2 (as claimed): for every entry with a non-trivial body in a tracked
\* section, the knowledge file of that section holds as many
\* '### <date>' subsections with that body as update_persistent_files has
\* run for that date and body.
C2_OneSubsectionPerRun ==
    \A e \in EntryIds, c \in Categories :
        Len(Body(e, c)) > TrivialLen
        => CountOf(knowledge[c], Subsection(Entries[e].date, Body(e, c)))
             = RunsLike(e, c)

\* C3: no operation rewrites a knowledge file or a daily memory file: what
\* a file held before a step is a prefix of what it holds after it, a file
\* that did not exist starts with its preamble (knowledge) or header
\* (daily memory), and what is added to a file that existed does not start
\* with the preamble or header again.
AppendOnly(before, after, starts) ==
    IF before = NoFile
    THEN after = NoFile \/ \E t \in starts : IsPrefix(t, after)
    ELSE /\ after # NoFile
         /\ IsPrefix(before, after)
         /\ \A t \in starts : ~MatchesAt(after, Len(before) + 1, t)

C3_AppendOnly ==
    [][ /\ \A c \in Categories :
             AppendOnly(knowledge[c], knowledge'[c], {SavePreamble[c], GenPreamble[c]})
        /\ \A d \in Dates :
             AppendOnly(daily[d], daily'[d], {DailyHeader(d)}) ]_vars

\* C3 witness: a knowledge file created by one run has been appended to by
\* a later one, and a daily memory file that held the raw log has got the
\* chronicle after it.
C3_Witness ==
    /\ \E c \in Categories :
          /\ IsPrefix(SavePreamble[c], knowledge[c])
          /\ CountOf(knowledge[c], Chars("\n### ")) >= 2
    /\ \E d \in Dates :
          /\ IsPrefix(RawLog(d), daily[d])
          /\ ChronicleBlocks(daily[d]) >= 1

----------------------------------------------------------------------------
(* What the claims about a run speak of.                                   *)

\* The ways the generation call fails.
GenerationFailures == {"cli_not_installed", "cli_error", "api_error"}

\* C11 (as claimed): however the generation call fails (no SDK and no CLI,
\* the CLI exiting non-zero, the SDK call raising an API error), the call
\* yields no document, main goes on to interactive_mode, and the run does
\* not end in an uncaught exception.
C11_FailureFallsBack ==
    failure \in GenerationFailures =>
        /\ pc # "traceback"
        /\ pc = "check_content" => main_content = NoneContent
        /\ pc \in {"have_content", "writing", "saved", "done"}
              => main_content.kind = "interactive"

\* C16 (as claimed): in a document interactive_mode built, the searches
\* of generate.py for Summary and for the four knowledge sections return,
\* for every field that was filled in, the text supplied for it (trimmed),
\* whatever the other fields hold.
C16_RoundTrip ==
    main_content.kind = "interactive" =>
        LET draft == Drafts[main_content.id]
        IN  /\ \A c \in Categories :
                   Strip(draft.answers[c]) # << >>
                       => draft.entry.gen_sections[c] = Strip(draft.answers[c])
            /\ Strip(draft.answers.summary) # << >>
                   => draft.entry.gen_summary = Strip(draft.answers.summary)

\* C17 (as claimed): when the write of the entry has failed, at the open
\* or at any point after it, the entry stored for the date before the run
\* is still in the file, whole.
C17_StoredEntryIntact ==
    pc = "io_traceback" /\ env.stored # NoFile => diary[Date1] = env.stored

\* C18 (as claimed): a run with --dry-run, of either script, leaves the
\* entry of the date, the four knowledge files and the daily memory file
\* as they were, and creates none of them.
C18_DryRunSavesNothing ==
    args.dry_run =>
        /\ diary[Date1] = env.stored
        /\ \A c \in Categories : knowledge[c] = NoFile
        /\ \A d \in Dates : daily[d] = NoFile

\* C19 (as claimed): on the knowledge files as they are, for every entry
\* and its date, update_persistent_files of save.py and of generate.py
\* leave every knowledge file with the same content; and a daily memory
\* file that holds the chronicle block of one script is left as it is by
\* append_to_daily_memory of the other.
C19_SameMerge ==
    /\ \A e \in EntryIds :
           save_update_persistent_files(Entries[e].entry, Entries[e].date, knowledge)
               = generate_update_persistent_files(Entries[e].entry, Entries[e].date,
                                                  knowledge)
    /\ \A d \in Dates, e \in EntryIds :
           /\ daily[d] # NoFile /\ Contains(daily[d], GenChronicleHeading)
                  => save_append_to_daily_memory(Entries[e].entry, d, config_json,
                                                 daily[d]) = daily[d]
           /\ daily[d] # NoFile /\ Contains(daily[d], SaveChronicleHeading)
                  => generate_append_to_daily_memory(Entries[e].entry, d, config_json,
                                                     daily[d], FALSE) = daily[d]

\* C20 (as claimed): after save.py has run update_persistent_files on a
\* document with no knowledge file present, each category's file is absent
\* when the trimmed body of its section is missing or 10 characters or
\* less, and holds the preamble and the dated subsection with that body
\* when the body is longer, whatever the other sections hold.
C20_TrivialUntouched ==
    args.script = "save" /\ ~args.dry_run /\ ~args.no_persistent /\ pc = "done" =>
        \A c \in Categories :
            LET body == Strip(Drafts[main_content.id].answers[c])
            IN  knowledge[c] = IF Len(body) > TrivialLen
                               THEN SavePreamble[c] \o Subsection(Date1, body)
                               ELSE NoFile

----------------------------------------------------------------------------
(* What the claims about the gathered context speak of.                    *)

StringEndsWith(s, lit) ==
    Len(s) >= Len(lit) /\ SubSeq(s, Len(s) - Len(lit) + 1, Len(s)) = lit

Calls(ops_named) == {k \in DOMAIN collected : collected[k].op \in ops_named}

\* The parser run in one go returns what its steps return.
ParseInOneGo ==
    outcome.st = "returned" => outcome.ret = parse_jsonl_session(session, max_chars)

\* C12 (as claimed): whatever the length of a knowledge file, the text
\* load_persistent_files returns for it is at most max_chars long, and ends
\* with the truncation marker whenever the file was longer than max_chars.
C12_BlobWithinCap ==
    \A k \in Calls({"load_persistent_files", "generate.load_persistent_files"}) :
        \A c \in Categories :
            LET blob == collected[k].ret[c]
            IN  ~blob.is_none =>
                    /\ Len(blob.text) <= collected[k].cap
                    /\ Len(diary_dir[c].text) > collected[k].cap
                           => StringEndsWith(blob.text, PersistentMarker)

\* C13 (as claimed): for any number of session files modified on the date,
\* of any sizes, the text load_session_log returns is at most max_chars long.
C13_TodayWithinCap ==
    \A k \in Calls({"load_session_log"}) :
        ~collected[k].ret.is_none => Len(collected[k].ret.text) <= collected[k].cap

\* Where a part is the heading asked for.
Indices(parts, heading) == {i \in DOMAIN parts : parts[i] = heading}

SessionOn(date_str) ==
    agents_dir.exists /\ \E f \in agents_dir.files : f.mtime.date = date_str
RecentSession ==
    agents_dir.exists /\ \E f \in agents_dir.files : f.mtime.age <= ContextDays

Headings(date_str) ==
    {TodayHeading(date_str), RecentHeading} \cup {ContextHeading[c] : c \in Categories}

C15_OrderIndependent ==
    \A i, j \in Calls({"load_session_log", "load_recent_sessions"}) :
        /\ collected[i].op = collected[j].op
        /\ collected[i].date_str = collected[j].date_str
        /\ collected[i].cap = collected[j].cap
        => collected[i].ret = collected[j].ret


----------------------------------------------------------------------------
(* What the claim about concurrent invocations speaks of.                  *)

\* An invocation that found the file, read it and appended its block.
Appended(p) ==
    /\ invocations[p].at = "returned"
    /\ invocations[p].wrote
    /\ invocations[p].existing_content # NoFile

\* An invocation that made its check on a file holding no chronicle block.
CheckedBeforeAnyWrite(p) == ChronicleBlocks(invocations[p].existing_content) = 0

\* C22, first half: when both invocations checked an existing file before
\* either wrote and both appended, the file ends with two chronicle blocks.
C22_RaceGivesTwoBlocks ==
    (\A p \in Invocations : Appended(p) /\ CheckedBeforeAnyWrite(p))
    => ChronicleBlocks(daily[Date1]) = 2

\* C22 (as claimed): two invocations for one date that check before either
\* writes both append and leave two chronicle blocks, and under serialized
\* invocations (no step of one between the first and the last step of the
\* other) a daily memory file with two chronicle blocks is unreachable.
C22_TwoBlocksOnlyWhenOverlapped ==
    /\ C22_RaceGivesTwoBlocks
    /\ ~overlapped => ChronicleBlocks(daily[Date1]) <= 1

\* The race itself: both invocations overlapped, and the file holds two
\* blocks.
C22_RaceReached ==
    /\ overlapped
    /\ \A p \in Invocations : Appended(p) /\ CheckedBeforeAnyWrite(p)
    /\ ChronicleBlocks(daily[Date1]) = 2


----------------------------------------------------------------------------
(* What the claim about the archive speaks of.                             *)

\* The archive holds a file with this content for this date.
Archived(date_str, text) ==
    \E f \in archive_dir.files :
        /\ f.text = text
        /\ SubSeq(f.name, 1, Len(date_str)) = date_str

\* A step in which archive_entry moved an entry: the entry is gone from the
\* diary directory and its content is in the archive.
ArchiveMoves ==
    moved' # moved =>
        LET last == moved'[Len(moved')]
        IN  /\ diary[last.date] = last.text
            /\ diary'[last.date] = NoFile
            /\ [name |-> last.name, text |-> last.text] \in archive_dir'.files
            /\ report'.archived

\* A step in which archive_entry reported that no entry existed: nothing
\* on disk changed.
ArchiveOfNothing ==
    (report' # report /\ ~report'.archived) =>
        /\ UNCHANGED <<diary, archive_dir, moved>>
        /\ \E d \in Dates : /\ diary[d] = NoFile
                            /\ report'.message = Chars("No existing entry for ") \o d

\* C23, the halves about a single call: archive_entry on an existing entry
\* removes it from the diary directory and stores its content in the
\* archive; on a date with no entry it changes nothing and reports so.
C23_SingleCall == [][ArchiveMoves /\ ArchiveOfNothing]_vars

\* C23 (as claimed): across any sequence of saves and archive_entry calls,
\* each call behaves as above, and every version archived so far is still
\* present in the archive directory with its content unchanged, also when
\* two archive operations for the date happen within one clock second.
C23_NoVersionLost ==
    /\ C23_SingleCall
    /\ [](\A i \in DOMAIN moved : Archived(moved[i].date, moved[i].text))

\* Two versions of one date archived within one clock second.
C23_SameSecondReached ==
    \E i, j \in DOMAIN moved :
        /\ i < j
        /\ moved[i].name = moved[j].name
        /\ moved[i].text # moved[j].text

=============================================================================
